---- MODULE Spec2Model ----
(***************************************************************************)
(* State-machine model of the realtime duplex audio session manager        *)
(* (class LiveService) and of the host hook that drives it.                *)
(*                                                                         *)
(* The repository holds two revisions of LiveService that differ in        *)
(* connect() and handleToolCall(): src/services/liveService.ts and         *)
(* src/unnamed/part_009.  The variable rev says which one runs.            *)
(*                                                                         *)
(* Scheduling: JavaScript runs one task at a time.  A handler runs to its  *)
(* first await; promise reactions are microtasks, which all run before the *)
(* next task.  The variable microtasks is that queue: every task-level     *)
(* action is guarded by an empty queue, RunMicrotask drains it in order.   *)
(* Handlers are operators from a state record to a state record, so that a *)
(* handler that calls another is the composition the code performs.        *)
(***************************************************************************)
EXTENDS Integers, Sequences, FiniteSets, TLC

\* ---------------------------------------------------------------- bounds
MaxTime == 2
MaxChunks == 2
MaxMsgs == 2
MaxFrames == 2
MaxCalls == 2
MaxDeltas == 2
Grid == 96
MaxLength == 35
MaxRate == 7
MaxRecent == 3
MaxHistory == 2
MaxSamples == 2
MaxBytes == 3

\* ------------------------------------------------------------- strings
\* A string is a sequence of one-character strings.  The alphabet keeps one
\* representative per class the code distinguishes: "a" a character of
\* [a-zA-Z0-9_-], " " whitespace, "'" a quote, "!" any other character.
Str(n, c) == [i \in 1..n |-> c]

RECURSIVE trimStart(_)
trimStart(str) ==
  IF str # << >> /\ Head(str) = " " THEN trimStart(Tail(str)) ELSE str

RECURSIVE trimEnd(_)
trimEnd(str) ==
  IF str # << >> /\ str[Len(str)] = " "
    THEN trimEnd(SubSeq(str, 1, Len(str) - 1)) ELSE str

trim(str) == trimEnd(trimStart(str))

IsQuote(c) == c = "'"
NotQuote(c) == ~IsQuote(c)
stripQuotes(str) == SelectSeq(str, NotQuote)

VideoIdLength == 11
\* The identifier test without its length.
isVideoId_anyLength(str) ==
  \A i \in 1..Len(str) : str[i] = "a"

isVideoId(str) ==
  /\ Len(str) = VideoIdLength
  /\ \A i \in 1..Len(str) : str[i] = "a"

Undefined == << >>
OrDefault(v, d) == IF v = Undefined THEN d ELSE v

DefaultTitle == <<"Y">>
PlayingPrefix == <<"P">>
SearchPrefix == <<"S">>

VARIABLES
  rev,                 \* which revision of LiveService runs
  \* ---- LiveService fields
  session, sessionPromise, stream, processor, userVoiceSample,
  nextStartTime, audioSources, isInterrupted,
  currentInputTranscription, currentOutputTranscription,
  \* ---- positions of the async methods
  pcConnect, pcMic,
  \* ---- runtime: promise, queues, audio context, transport, timers
  promise, reactions, microtasks, resumeWaiters,
  ctxState, currentTime, transport, timers, endedPending,
  \* ---- host hook (useGeminiLive) and what it observes
  serviceRef, eyeState, errors, disconnects, commands, transcripts,
  \* ---- wire: what the service hands to the transport
  framesSent, voiceSent, closeCalls, toolResults,
  \* ---- history kept for the properties
  effects, chunks, scheduled, calls, turn, interruptedTurns,
  nDeltas, discarded, nMsgs, nFrames, raced, disconnected, completed,
  captured, wire, newer, isActive, debounce, recent,
  \* ---- host hook: chat history and live subtitle
  history, liveTranscript, liveClears,
  \* ---- audioUtils: arguments and results of the pure functions
  sample, pcm16, decoded, buffer, resampled, int16Array, float32,
  bytes, base64, arrayBuffer

vars == << rev, session, sessionPromise, stream, processor, userVoiceSample,
           voiceSent, nextStartTime,
           audioSources, isInterrupted, currentInputTranscription,
           currentOutputTranscription, pcConnect, pcMic, promise, reactions,
           microtasks, resumeWaiters, ctxState, currentTime, transport,
           timers, endedPending, serviceRef, eyeState, errors, disconnects,
           commands, transcripts, framesSent, closeCalls, toolResults,
           effects, chunks, scheduled, calls, turn, interruptedTurns,
           nDeltas, discarded, nMsgs, nFrames, raced, disconnected,
           completed, captured, wire, newer, isActive, debounce, recent,
           history, liveTranscript, liveClears,
           sample, pcm16, decoded, buffer, resampled, int16Array,
           float32, bytes, base64, arrayBuffer >>

\* The current state as one record, and the assignment of a record to the
\* next state.
Cur ==
  [ rev |-> rev, session |-> session, sessionPromise |-> sessionPromise,
    stream |-> stream, processor |-> processor,
    userVoiceSample |-> userVoiceSample, voiceSent |-> voiceSent,
    nextStartTime |-> nextStartTime, audioSources |-> audioSources,
    isInterrupted |-> isInterrupted,
    currentInputTranscription |-> currentInputTranscription,
    currentOutputTranscription |-> currentOutputTranscription,
    pcConnect |-> pcConnect, pcMic |-> pcMic, promise |-> promise,
    reactions |-> reactions, microtasks |-> microtasks,
    resumeWaiters |-> resumeWaiters, ctxState |-> ctxState,
    currentTime |-> currentTime, transport |-> transport, timers |-> timers,
    endedPending |-> endedPending, serviceRef |-> serviceRef,
    eyeState |-> eyeState, errors |-> errors, disconnects |-> disconnects,
    commands |-> commands, transcripts |-> transcripts,
    framesSent |-> framesSent, closeCalls |-> closeCalls,
    toolResults |-> toolResults, effects |-> effects, chunks |-> chunks,
    scheduled |-> scheduled, calls |-> calls, turn |-> turn,
    interruptedTurns |-> interruptedTurns, nDeltas |-> nDeltas,
    discarded |-> discarded, nMsgs |-> nMsgs, nFrames |-> nFrames,
    raced |-> raced, disconnected |-> disconnected,
    completed |-> completed, captured |-> captured, wire |-> wire,
    newer |-> newer, isActive |-> isActive, debounce |-> debounce,
    recent |-> recent, history |-> history,
    liveTranscript |-> liveTranscript, liveClears |-> liveClears,
    sample |-> sample, pcm16 |-> pcm16, decoded |-> decoded,
    buffer |-> buffer, resampled |-> resampled,
    int16Array |-> int16Array, float32 |-> float32,
    bytes |-> bytes, base64 |-> base64, arrayBuffer |-> arrayBuffer ]

Set(r) ==
  /\ rev' = r.rev /\ session' = r.session
  /\ sessionPromise' = r.sessionPromise
  /\ stream' = r.stream /\ processor' = r.processor
  /\ userVoiceSample' = r.userVoiceSample /\ voiceSent' = r.voiceSent
  /\ nextStartTime' = r.nextStartTime /\ audioSources' = r.audioSources
  /\ isInterrupted' = r.isInterrupted
  /\ currentInputTranscription' = r.currentInputTranscription
  /\ currentOutputTranscription' = r.currentOutputTranscription
  /\ pcConnect' = r.pcConnect /\ pcMic' = r.pcMic /\ promise' = r.promise
  /\ reactions' = r.reactions /\ microtasks' = r.microtasks
  /\ resumeWaiters' = r.resumeWaiters /\ ctxState' = r.ctxState
  /\ currentTime' = r.currentTime /\ transport' = r.transport
  /\ timers' = r.timers /\ endedPending' = r.endedPending
  /\ serviceRef' = r.serviceRef /\ eyeState' = r.eyeState
  /\ errors' = r.errors /\ disconnects' = r.disconnects
  /\ commands' = r.commands /\ transcripts' = r.transcripts
  /\ framesSent' = r.framesSent /\ closeCalls' = r.closeCalls
  /\ toolResults' = r.toolResults /\ effects' = r.effects
  /\ chunks' = r.chunks /\ scheduled' = r.scheduled /\ calls' = r.calls
  /\ turn' = r.turn /\ interruptedTurns' = r.interruptedTurns
  /\ nDeltas' = r.nDeltas /\ discarded' = r.discarded /\ nMsgs' = r.nMsgs
  /\ nFrames' = r.nFrames /\ raced' = r.raced
  /\ disconnected' = r.disconnected /\ completed' = r.completed
  /\ captured' = r.captured /\ wire' = r.wire
  /\ newer' = r.newer /\ isActive' = r.isActive
  /\ debounce' = r.debounce /\ recent' = r.recent
  /\ history' = r.history /\ liveTranscript' = r.liveTranscript
  /\ liveClears' = r.liveClears
  /\ sample' = r.sample /\ pcm16' = r.pcm16 /\ decoded' = r.decoded
  /\ buffer' = r.buffer /\ resampled' = r.resampled
  /\ int16Array' = r.int16Array /\ float32' = r.float32
  /\ bytes' = r.bytes /\ base64' = r.base64
  /\ arrayBuffer' = r.arrayBuffer

\* A task-level action starts from the current state.
Begin == Cur

\* ------------------------------------------------- promise and callbacks
\* A queued continuation: k names the code that runs, the other fields are
\* what its closure captured.
Task(k) == [k |-> k, id |-> 0, name |-> "", status |-> "", value |-> << >>]

\* sessionPromise.then(f): f waits for a pending promise, runs as a
\* microtask on a fulfilled one and never on a rejected one.
thenSession(s, t) ==
  IF s.promise = "pending" THEN [s EXCEPT !.reactions = Append(@, t)]
  ELSE IF s.promise = "fulfilled" THEN [s EXCEPT !.microtasks = Append(@, t)]
  ELSE s

\* The host's callbacks (useGeminiLive).
\* recent keeps the last MaxRecent callbacks the service made, in order.
Called(s, c) ==
  LET l == Append(s.recent, c)
  IN  [s EXCEPT !.recent = IF Len(l) > MaxRecent THEN Tail(l) ELSE l]

onStateChange(s, state) == [Called(s, state) EXCEPT !.eyeState = state]
onError(s) == [Called(s, "error") EXCEPT !.errors = @ + 1]
onDisconnect(s) ==
  [Called(s, "disconnect") EXCEPT
     !.disconnects = @ + 1, !.serviceRef = "null",
     !.isActive = FALSE, !.eyeState = "IDLE"]

\* session.close(): the socket starts closing; what is sent on it afterwards
\* is discarded.  The entry records whether the microphone was still
\* capturing and whether playback was still live at that moment.
sessionClose(s) ==
  [s EXCEPT !.closeCalls = @ + 1,
            !.transport = IF @ = "open" THEN "closing" ELSE @,
            !.effects = Append(@, [op |-> "close",
                                   micLive |-> s.stream = "live",
                                   playing |-> s.audioSources # {}])]

Effect(s, op) ==
  [s EXCEPT !.effects = Append(@, [op |-> op, micLive |-> FALSE,
                                   playing |-> FALSE])]

\* ----------------------------------------------------------- audioUtils
\* A sample is a rational n / Grid; its clamped range is -Grid..Grid.
Int16Scale == 32768
PositiveScale == 32767
Int16Modulus == 65536

\* The number-to-Int16Array-element conversion: the fraction is dropped
\* towards zero and the integer wraps modulo 2^16.
Truncate(num, den) ==
  IF num >= 0 THEN num \div den ELSE 0 - ((0 - num) \div den)
ToInt16(v) ==
  LET m == v % Int16Modulus
  IN  IF m >= Int16Scale THEN m - Int16Modulus ELSE m

Clamp(n) ==
  IF n < 0 - Grid THEN 0 - Grid ELSE IF n > Grid THEN Grid ELSE n

\* An encoder that scales both signs by 0x8000.
float32ToInt16_symmetric(n) ==
  ToInt16(Truncate(n * Int16Scale, Grid))

\* float32ToInt16, lines 28-36, for one element n / Grid.
float32ToInt16(n) ==
  LET s == Clamp(n)
  IN  IF s < 0 THEN ToInt16(Truncate(s * Int16Scale, Grid))
      ELSE ToInt16(Truncate(s * PositiveScale, Grid))

\* int16ToFloat32, lines 39-46, for one element: the rational k / 32768.
int16ToFloat32(k) == [num |-> k, den |-> Int16Scale]

\* An encoder that does not clamp.
float32ToInt16Array_unclamped(float32Array) ==
  [i \in 1..Len(float32Array) |->
     IF float32Array[i] < 0
       THEN ToInt16(Truncate(float32Array[i] * Int16Scale, Grid))
       ELSE ToInt16(Truncate(float32Array[i] * PositiveScale, Grid))]

\* float32ToInt16, lines 28-36, for a whole array: an Int16Array of the
\* length of the input, element by element.
float32ToInt16Array(float32Array) ==
  [i \in 1..Len(float32Array) |-> float32ToInt16(float32Array[i])]

\* The buffer of an Int16Array: two bytes per element, low byte first.
BytesPerElement == 2
ByteModulus == 256
ArrayBuffer(array) ==
  [j \in 1..(BytesPerElement * Len(array)) |->
     LET v == array[(j + 1) \div BytesPerElement] % Int16Modulus
     IN  IF j % BytesPerElement = 1 THEN v % ByteModulus
         ELSE v \div ByteModulus]

\* new Int16Array(int16Buffer), line 40: a view of the bytes, which throws a
\* RangeError on a byte length that is not a multiple of two.
Int16View(int16Buffer) ==
  [i \in 1..(Len(int16Buffer) \div BytesPerElement) |->
     ToInt16(int16Buffer[BytesPerElement * i - 1]
               + ByteModulus * int16Buffer[BytesPerElement * i])]

\* int16ToFloat32, lines 39-46, for a whole buffer.
int16ToFloat32Array(int16Buffer) ==
  IF Len(int16Buffer) % BytesPerElement # 0
    THEN [threw |-> TRUE, float32 |-> << >>]
    ELSE [threw |-> FALSE,
          float32 |-> [i \in 1..Len(Int16View(int16Buffer)) |->
                         int16ToFloat32(Int16View(int16Buffer)[i])]]

\* A binary string is the sequence of its code units; a base64 string is a
\* sequence of one-character strings.
Base64Alphabet ==
  << "A", "B", "C", "D", "E", "F", "G", "H", "I", "J", "K", "L", "M",
     "N", "O", "P", "Q", "R", "S", "T", "U", "V", "W", "X", "Y", "Z",
     "a", "b", "c", "d", "e", "f", "g", "h", "i", "j", "k", "l", "m",
     "n", "o", "p", "q", "r", "s", "t", "u", "v", "w", "x", "y", "z",
     "0", "1", "2", "3", "4", "5", "6", "7", "8", "9", "+", "/" >>
UrlSafeAlphabet ==
  [i \in 1..Len(Base64Alphabet) |->
     IF Base64Alphabet[i] = "+" THEN "-"
     ELSE IF Base64Alphabet[i] = "/" THEN "_" ELSE Base64Alphabet[i]]

\* The byte at index i, counted from 0, or 0 past the end.
ByteAt(binary, i) == IF i < Len(binary) THEN binary[i + 1] ELSE 0

\* The four characters of the group that starts at byte g, under an
\* alphabet: three bytes are cut into four 6-bit values, and the places of
\* the bytes that are missing are filled with "=".
Group(binary, g, alphabet) ==
  LET b1 == ByteAt(binary, g)
      b2 == ByteAt(binary, g + 1)
      b3 == ByteAt(binary, g + 2)
  IN  << alphabet[b1 \div 4 + 1],
         alphabet[(b1 % 4) * 16 + b2 \div 16 + 1],
         IF g + 1 < Len(binary)
           THEN alphabet[(b2 % 16) * 4 + b3 \div 64 + 1] ELSE "=",
         IF g + 2 < Len(binary) THEN alphabet[(b3 % 64) + 1] ELSE "=" >>

Encoded(binary, alphabet) ==
  [p \in 1..(4 * ((Len(binary) + 2) \div 3)) |->
     Group(binary, 3 * ((p - 1) \div 4), alphabet)[((p - 1) % 4) + 1]]

\* An encoder with the alphabet of base64url.
btoa_urlSafe(binary) ==
  IF \E i \in 1..Len(binary) : binary[i] >= ByteModulus
    THEN [threw |-> TRUE, data |-> << >>]
    ELSE [threw |-> FALSE, data |-> Encoded(binary, UrlSafeAlphabet)]

\* btoa: it throws on a code unit above 255.
btoa(binary) ==
  IF \E i \in 1..Len(binary) : binary[i] >= ByteModulus
    THEN [threw |-> TRUE, data |-> << >>]
    ELSE [threw |-> FALSE, data |-> Encoded(binary, Base64Alphabet)]

\* atob: one or two "=" at the end of a string whose length is a multiple
\* of four are removed; what remains must be of the alphabet and not of a
\* length of 1 modulo 4; every 8 bits of the 6-bit values make a byte and
\* the bits left over are dropped.
Stripped(data) ==
  LET n == Len(data)
  IN  IF n % 4 # 0 \/ n = 0 \/ data[n] # "=" THEN data
      ELSE IF data[n - 1] = "=" THEN SubSeq(data, 1, n - 2)
      ELSE SubSeq(data, 1, n - 1)

InAlphabet(c) == \E v \in 1..Len(Base64Alphabet) : Base64Alphabet[v] = c
ValueOf(c) == (CHOOSE v \in 1..Len(Base64Alphabet) : Base64Alphabet[v] = c) - 1

Decoded(data) ==
  [j \in 1..((6 * Len(data)) \div 8) |->
     LET a == (8 * (j - 1)) \div 6
         o == (8 * (j - 1)) % 6
         hi == ValueOf(data[a + 1])
         lo == ValueOf(data[a + 2])
     IN  IF o = 0 THEN hi * 4 + lo \div 16
         ELSE IF o = 2 THEN (hi % 16) * 16 + lo \div 4
         ELSE (hi % 4) * 64 + lo]

atob(data) ==
  LET d == Stripped(data)
  IN  IF \/ Len(d) % 4 = 1
         \/ \E i \in 1..Len(d) : ~InAlphabet(d[i])
        THEN [threw |-> TRUE, binaryString |-> << >>]
        ELSE [threw |-> FALSE, binaryString |-> Decoded(d)]

\* arrayBufferToBase64, lines 81-89: the bytes become the code units of a
\* binary string, which btoa encodes.
arrayBufferToBase64(arraybuffer) ==
  btoa([i \in 1..Len(arraybuffer) |-> arraybuffer[i] % Int16Modulus])

\* base64ToArrayBuffer, lines 71-79: the code units of what atob returns
\* are stored in a Uint8Array.
base64ToArrayBuffer(data) ==
  LET binaryString == atob(data)
  IN  IF binaryString.threw THEN [threw |-> TRUE, bytes |-> << >>]
      ELSE [threw |-> FALSE,
            bytes |-> [i \in 1..Len(binaryString.binaryString) |->
                         binaryString.binaryString[i] % ByteModulus]]

\* Numbers are IEEE-754 doubles: the quotient of two doubles is the exact
\* quotient rounded to 53 significant bits, ties to even.  The significands
\* are kept as Width limbs of LimbBits bits, least significant first.
LimbBits == 13
Base == 8192
Width == 10
MantissaBits == 52

\* The same limbs as a tuple, each limb computed once.
Limbs(A) == SubSeq(A, 1, Width)

Big(n) ==
  [i \in 1..Width |->
     IF i = 1 THEN n % Base
     ELSE IF i = 2 THEN (n \div Base) % Base
     ELSE IF i = 3 THEN n \div (Base * Base) ELSE 0]

RECURSIVE MulCarry(_, _, _)
MulCarry(A, m, i) ==
  IF i = 1 THEN 0 ELSE (A[i - 1] * m + MulCarry(A, m, i - 1)) \div Base
MulSmall(A, m) ==
  [i \in 1..Width |-> (A[i] * m + MulCarry(A, m, i)) % Base]

ShiftLimbs(A, k) == [i \in 1..Width |-> IF i <= k THEN 0 ELSE A[i - k]]
ShiftLeft(A, s) ==
  MulSmall(ShiftLimbs(A, s \div LimbBits), 2 ^ (s % LimbBits))

RECURSIVE DivRem(_, _, _)
DivRem(A, d, i) ==
  IF i > Width THEN 0 ELSE (DivRem(A, d, i + 1) * Base + A[i]) % d
DivSmall(A, d) ==
  [i \in 1..Width |-> (DivRem(A, d, i + 1) * Base + A[i]) \div d]
RemSmall(A, d) == DivRem(A, d, 1)

RECURSIVE Borrow(_, _, _)
Borrow(A, B, i) ==
  IF i = 1 THEN 0
  ELSE IF A[i - 1] - B[i - 1] - Borrow(A, B, i - 1) < 0 THEN 1 ELSE 0
Sub(A, B) ==
  [i \in 1..Width |-> (A[i] - B[i] - Borrow(A, B, i) + Base) % Base]

RECURSIVE AddCarry(_, _)
AddCarry(A, i) ==
  IF i = 1 THEN 1
  ELSE IF A[i - 1] + AddCarry(A, i - 1) >= Base THEN 1 ELSE 0
AddOne(A) == [i \in 1..Width |-> (A[i] + AddCarry(A, i)) % Base]

RECURSIVE LessEqFrom(_, _, _)
LessEqFrom(A, B, i) ==
  IF i = 0 THEN TRUE
  ELSE IF A[i] # B[i] THEN A[i] < B[i]
  ELSE LessEqFrom(A, B, i - 1)
LessEq(A, B) == LessEqFrom(A, B, Width)

\* The binary exponent of a / b and of t, for a >= b > 0 and t > 0.
Exponent(a, b) ==
  CHOOSE e \in 0..LimbBits : b * 2 ^ e <= a /\ a < b * 2 ^ (e + 1)
Log2(t) == Exponent(t, 1)

\* Line 58, inputSampleRate / outputSampleRate for input >= output: the
\* double m * 2^(e - 52).
sampleRateRatio(inputSampleRate, outputSampleRate) ==
  LET e == Exponent(inputSampleRate, outputSampleRate)
      num == Limbs(ShiftLeft(Big(inputSampleRate), MantissaBits - e))
      m0 == Limbs(DivSmall(num, outputSampleRate))
      r == RemSmall(num, outputSampleRate)
      up == \/ 2 * r > outputSampleRate
            \/ 2 * r = outputSampleRate /\ m0[1] % 2 = 1
  IN  [m |-> Limbs(IF up THEN AddOne(m0) ELSE m0), e |-> e]

\* Line 59, Math.floor(length / ratio): the exact quotient lies in
\* [q, q + 1); its rounding to a double is q + 1 when it is within half a
\* unit in the last place of q + 1, and a double below q + 1 otherwise.
newLength(length, ratio) ==
  LET n == Limbs(ShiftLeft(Big(length), MantissaBits - ratio.e))
      q == CHOOSE c \in 0..length :
             /\ LessEq(MulSmall(ratio.m, c), n)
             /\ c < length => ~LessEq(MulSmall(ratio.m, c + 1), n)
      t == q + 1
      k == Log2(t)
      halfUlp == IF t = 2 ^ k THEN MantissaBits + 2 - k
                 ELSE MantissaBits + 1 - k
      roundsUp == LessEq(ShiftLeft(Sub(MulSmall(ratio.m, t), n), halfUlp),
                         ratio.m)
  IN  IF roundsUp THEN t ELSE q

\* The limbs from the k-th on, and the integer a significand of at most
\* three limbs stands for.
DropLimbs(A, k) == [i \in 1..Width |-> IF i + k <= Width THEN A[i + k] ELSE 0]
ShiftRight(A, s) ==
  DivSmall(DropLimbs(A, s \div LimbBits), 2 ^ (s % LimbBits))
ToInt(A) == A[1] + Base * (A[2] + Base * A[3])

\* Line 66, Math.floor(i * ratio): the exact product p * 2^(e - 52) has
\* 53 + k significant bits and is rounded to 53 of them, ties to even;
\* the floor drops the bits after the binary point.
offset(i, ratio) ==
  IF i = 0 THEN 0
  ELSE
    LET p == Limbs(MulSmall(ratio.m, i))
        k == CHOOSE c \in 0..LimbBits :
               /\ LessEq(ShiftLeft(Big(1), MantissaBits + c), p)
               /\ ~LessEq(ShiftLeft(Big(1), MantissaBits + c + 1), p)
        m0 == Limbs(ShiftRight(p, k))
        r == RemSmall(p, 2 ^ k)
        up == \/ 2 * r > 2 ^ k
              \/ 2 * r = 2 ^ k /\ m0[1] % 2 = 1
        m == Limbs(IF up THEN AddOne(m0) ELSE m0)
    IN  ToInt(ShiftRight(m, MantissaBits - ratio.e - k))

\* downsampleBuffer, lines 53-69: the length of what it returns, whether
\* that is the input buffer itself, and for each element of the result the
\* index of the input element it holds (indices count from 0, the sequence
\* from 1).
downsampleBuffer(b) ==
  IF b.outputSampleRate = b.inputSampleRate
    THEN [length |-> b.length, same |-> TRUE,
          offsets |-> [i \in 1..b.length |-> i - 1]]
    ELSE LET ratio == sampleRateRatio(b.inputSampleRate, b.outputSampleRate)
             n == newLength(b.length, ratio)
         IN  [length |-> n, same |-> FALSE,
              offsets |-> [i \in 1..n |-> offset(i - 1, ratio)]]

\* ------------------------------------------------------------ playback
\* How many times playback has been force-stopped so far.
StopCount(s) ==
  Cardinality({i \in 1..Len(s.effects) : s.effects[i].op = "stopAudioPlayback"})

\* A stop that halts the sources and leaves them in the live set.
stopAudioPlayback_neverClears(s) ==
  LET s1 == Effect(s, "stopAudioPlayback")
  IN  onStateChange(
        [s1 EXCEPT !.endedPending = @ \cup s.audioSources,
                   !.nextStartTime = s.currentTime],
        "LISTENING")

\* A stop that leaves the cursor where it was.
stopAudioPlayback_keepsCursor(s) ==
  LET s1 == Effect(s, "stopAudioPlayback")
  IN  onStateChange(
        [s1 EXCEPT !.endedPending = @ \cup s.audioSources,
                   !.audioSources = {}],
        "LISTENING")

stopAudioPlayback(s) ==
  LET s1 == Effect(s, "stopAudioPlayback")
  IN  onStateChange(
        [s1 EXCEPT !.endedPending = @ \cup s.audioSources,
                   !.audioSources = {},
                   !.nextStartTime = s.currentTime],
        "LISTENING")

\* A scheduler that restarts from the clock at every chunk.
schedule_fromClock(s, id) ==
  LET start == s.currentTime
      dur == s.chunks[id].dur
  IN  [s EXCEPT
         !.nextStartTime = start + dur,
         !.audioSources = @ \cup {id},
         !.debounce = IF "debounce" \in s.timers THEN "enqueued" ELSE @,
         !.scheduled = Append(@, [chunk |-> id, start |-> start, dur |-> dur,
                                  at |-> s.currentTime,
                                  epoch |-> StopCount(s)])]

\* playAudioChunk after its await: lines 430-453.
schedule(s, id) ==
  LET start == IF s.nextStartTime < s.currentTime
                 THEN s.currentTime ELSE s.nextStartTime
      dur == s.chunks[id].dur
  IN  [s EXCEPT
         !.nextStartTime = start + dur,
         !.audioSources = @ \cup {id},
         !.debounce = IF "debounce" \in s.timers THEN "enqueued" ELSE @,
         !.scheduled = Append(@, [chunk |-> id, start |-> start, dur |-> dur,
                                  at |-> s.currentTime,
                                  epoch |-> StopCount(s)])]

\* A payload that base64ToArrayBuffer or int16ToFloat32 throws on; the
\* playable payloads are their durations.
Undecodable == 0 - 1

\* A payload with an odd number of bytes: new Int16Array throws on it.
OddLength == 0 - 2

\* base64ToArrayBuffer (atob) and int16ToFloat32 (new Int16Array), by
\* whether they throw on the payload.
atobThrows(payload) == payload = Undecodable
int16ToFloat32Throws(payload) == payload = OddLength

\* A body that moves the cursor to the clock before it decodes.
playAudioChunkBody_snapsFirst(s, id) ==
  LET s1 == [s EXCEPT !.nextStartTime =
               IF @ < s.currentTime THEN s.currentTime ELSE @]
  IN  IF s.isInterrupted THEN s
      ELSE IF atobThrows(s.chunks[id].dur)
              \/ int16ToFloat32Throws(s.chunks[id].dur)
        THEN s1 ELSE schedule(s1, id)

\* Lines 430-454: the decoding error is caught and logged.
playAudioChunkBody(s, id) ==
  IF s.isInterrupted THEN s
  ELSE IF atobThrows(s.chunks[id].dur)
          \/ int16ToFloat32Throws(s.chunks[id].dur)
    THEN s ELSE schedule(s, id)

playAudioChunk(s, id) ==
  IF s.ctxState = "suspended"
    THEN [s EXCEPT
            !.resumeWaiters = Append(@, [Task("playResumed") EXCEPT !.id = id])]
    ELSE playAudioChunkBody(s, id)

\* source.onended, lines 448-453.
\* debounce follows the oldest pending timer of line 450: armed, a chunk
\* enqueued since, and what the timer did when it fired.
onended(s, id) ==
  LET s1 == [s EXCEPT !.audioSources = @ \ {id}]
  IN  IF s1.audioSources = {}
        THEN [s1 EXCEPT !.timers = @ \cup {"debounce"},
                        !.debounce = IF "debounce" \in s.timers
                                       THEN @ ELSE "armed"]
        ELSE s1

\* A debounce timer that reports Listening whatever plays.
debounceTimer_always(s) ==
  onStateChange([s EXCEPT !.timers = @ \ {"debounce"},
                          !.debounce = "reported"], "LISTENING")

\* The callback of line 450-452.
debounceTimer(s) ==
  LET s1 == [s EXCEPT !.timers = @ \ {"debounce"}]
  IN  IF s1.audioSources = {} /\ ~s1.isInterrupted
        THEN onStateChange([s1 EXCEPT !.debounce = "reported"], "LISTENING")
        ELSE [s1 EXCEPT !.debounce = "skipped"]

\* A grace timer that reports Listening whatever plays.
graceTimer_always(s) ==
  onStateChange([s EXCEPT !.timers = @ \ {"grace"}], "LISTENING")

graceTimer(s) ==
  LET s1 == [s EXCEPT !.timers = @ \ {"grace"}]
  IN  IF s1.audioSources = {} THEN onStateChange(s1, "LISTENING") ELSE s1

\* ---------------------------------------------------------- connection
\* connect(), lines 206-207: the transport handshake starts and connect()
\* awaits its promise (the first reaction registered on it).
liveConnect(s) ==
  [s EXCEPT
     !.sessionPromise = "promise", !.promise = "pending",
     !.transport = "connecting",
     !.reactions = Append(@, Task("connectCont")),
     !.pcConnect = "awaitSession"]

\* connect(), lines 136-137: the audio context is resumed first.
connect(s) ==
  IF s.ctxState = "suspended"
    THEN [s EXCEPT
            !.pcConnect = "awaitResume",
            !.resumeWaiters = Append(@, Task("connectResumed"))]
    ELSE liveConnect(s)

\* connect() after `await this.sessionPromise`.  liveService.ts closes the
\* handle when the field was nulled meanwhile; part_009 stores it always.
connectCont(s) ==
  IF s.rev = "liveService" /\ s.sessionPromise = "null"
    THEN [sessionClose(s) EXCEPT !.pcConnect = "done"]
    ELSE [s EXCEPT !.session = "handle",
                                       !.pcConnect = "done"]

\* connect()'s catch block.
connectCatch(s) ==
  onDisconnect(onError(onStateChange(
    [s EXCEPT !.pcConnect = "failed"], "IDLE")))

\* startAudioInput() up to its first pending await.
startAudioInput(s) ==
  IF s.ctxState = "suspended"
    THEN [s EXCEPT
            !.pcMic = "awaitResume",
            !.resumeWaiters = Append(@, Task("micResumed"))]
    ELSE [s EXCEPT !.pcMic = "awaitMic"]

\* startAudioInput() after getUserMedia resolved: the graph is built.
micGranted(s) ==
  [s EXCEPT !.stream = "live", !.processor = "connected",
                               !.pcMic = "done"]

\* startAudioInput()'s catch block.
\* A catch block that notifies the disconnect before the error.
micDenied_errorLast(s) ==
  onError(onDisconnect(onStateChange(
    [s EXCEPT !.pcMic = "failed"], "IDLE")))

micDenied(s) ==
  onDisconnect(onError(onStateChange(
    [s EXCEPT !.pcMic = "failed"], "IDLE")))

\* session.sendRealtimeInput / sendToolResponse reach the wire only while
\* the socket is open.
CanSend(s) == s.transport = "open"

sendVoiceSample(s) ==
  [s EXCEPT !.voiceSent = IF CanSend(s) THEN @ + 1 ELSE @,
            !.timers = @ \cup {"voiceNote"}]

handleOpen(s) ==
  LET s1 == onStateChange(startAudioInput(s), "LISTENING")
  IN  IF s1.userVoiceSample /\ s1.session # "null"
        THEN sendVoiceSample(s1) ELSE s1

\* The noise gate's thresholds, line 397, in thousandths.
LowThreshold == 15
HighThreshold == 30
noiseThreshold(isAIPlaying) ==
  IF isAIPlaying THEN HighThreshold ELSE LowThreshold

\* A gate that never raises its threshold.
onaudioprocess_fixedThreshold(s, rms, throws) ==
  LET isAIPlaying == s.audioSources # {}
      zeroed == rms < LowThreshold
      s1 == [s EXCEPT !.nFrames = @ + 1,
                      !.captured = Append(@, [rms |-> rms,
                                              playing |-> isAIPlaying,
                                              volume |-> rms * 100,
                                              attempts |-> 0])]
      t == [Task("sendFrame") EXCEPT
              !.id = s1.nFrames,
              !.status = IF zeroed THEN "zeroed" ELSE "raw",
              !.name = IF throws THEN "throws" ELSE "ok"]
  IN  IF s1.sessionPromise # "null" THEN thenSession(s1, t) ELSE s1

\* processor.onaudioprocess, lines 388-417: one captured frame of level
\* rms; throws tells whether the send of this frame will throw.
onaudioprocess(s, rms, throws) ==
  LET isAIPlaying == s.audioSources # {}
      zeroed == rms < noiseThreshold(isAIPlaying)
      s1 == [s EXCEPT !.nFrames = @ + 1,
                      !.captured = Append(@, [rms |-> rms,
                                              playing |-> isAIPlaying,
                                              volume |-> rms * 100,
                                              attempts |-> 0])]
      t == [Task("sendFrame") EXCEPT
              !.id = s1.nFrames,
              !.status = IF zeroed THEN "zeroed" ELSE "raw",
              !.name = IF throws THEN "throws" ELSE "ok"]
  IN  IF s1.sessionPromise # "null" THEN thenSession(s1, t) ELSE s1

\* A send that goes to the head of what the transport has queued.
sendFrame_unshift(s, t) ==
  LET s1 == [s EXCEPT !.captured[t.id].attempts = @ + 1]
  IN  IF t.name = "throws" THEN s1
      ELSE IF CanSend(s1)
        THEN [s1 EXCEPT !.framesSent = @ + 1,
                        !.wire = <<[id |-> t.id, zeroed |-> t.status = "zeroed"]>>
                                   \o @]
      ELSE s1

\* A send whose failure is reported to the host.
sendFrame_reportsError(s, t) ==
  LET s1 == [s EXCEPT !.captured[t.id].attempts = @ + 1]
  IN  IF t.name = "throws" THEN onError(s1)
      ELSE IF CanSend(s1)
        THEN [s1 EXCEPT !.framesSent = @ + 1,
                        !.wire = Append(@, [id |-> t.id,
                                            zeroed |-> t.status = "zeroed"])]
      ELSE s1

\* Lines 409-416: the frame is encoded and sent once the session promise
\* is fulfilled; whatever the send throws is caught and dropped.
sendFrame(s, t) ==
  LET s1 == [s EXCEPT !.captured[t.id].attempts = @ + 1]
  IN  IF t.name = "throws" THEN s1
      ELSE IF CanSend(s1)
        THEN [s1 EXCEPT !.framesSent = @ + 1,
                        !.wire = Append(@, [id |-> t.id,
                                            zeroed |-> t.status = "zeroed"])]
      ELSE s1

\* disconnect(), lines 465-492.
\* A disconnect that closes the transport first.
disconnect_closesFirst(s) ==
  LET s1 == IF s.session # "null" THEN sessionClose(s)
            ELSE IF s.sessionPromise # "null"
              THEN thenSession(s, Task("closePending"))
            ELSE s
      s2 == IF s1.stream = "live"
              THEN [Effect(s1, "micStop") EXCEPT !.stream = "stopped"] ELSE s1
      s3 == IF s2.processor = "connected"
              THEN [Effect(s2, "graphDisconnect") EXCEPT
                      !.processor = "disconnected"]
              ELSE s2
      s4 == stopAudioPlayback(s3)
  IN  [s4 EXCEPT !.session = "null", !.sessionPromise = "null",
                 !.disconnected = TRUE]

disconnect(s) ==
  LET s0 == s
      s1 == IF s0.stream = "live"
              THEN [Effect(s0, "micStop") EXCEPT !.stream = "stopped"] ELSE s0
      s2 == IF s1.processor = "connected"
              THEN [Effect(s1, "graphDisconnect") EXCEPT
                      !.processor = "disconnected"]
              ELSE s1
      s3 == stopAudioPlayback(s2)
      s4 == IF s3.session # "null" THEN sessionClose(s3)
            ELSE IF s3.sessionPromise # "null"
              THEN thenSession(s3, Task("closePending"))
            ELSE s3
  IN  [s4 EXCEPT !.session = "null", !.sessionPromise = "null",
                 !.disconnected = TRUE]

closePending(s) == sessionClose(s)

\* useGeminiLive.disconnect, lines 265-274.
hostDisconnect(s) ==
  [disconnect(s) EXCEPT !.serviceRef = "null", !.eyeState = "IDLE",
                        !.isActive = FALSE, !.liveTranscript = << >>]

\* useGeminiLive.connect, lines 199-262, for the one service of the model.
hostConnect(s) ==
  [connect(s) EXCEPT !.serviceRef = "service", !.isActive = TRUE]

\* useGeminiLive.connect called again, lines 195-199 and 261-262: the
\* service the host still holds is disconnected, a newer LiveService is
\* created and connected, and the host holds the newer one.
hostReconnect(s) ==
  LET s1 == IF s.serviceRef = "service" THEN disconnect(s) ELSE s
  IN  [s1 EXCEPT !.newer = "live", !.serviceRef = "newer", !.isActive = TRUE]

\* useGeminiLive.disconnect while the host holds the newer service.
hostDisconnectNewer(s) ==
  [s EXCEPT !.newer = "closed", !.serviceRef = "null", !.eyeState = "IDLE",
            !.isActive = FALSE]

\* The newer service's own onclose or onerror: its onDisconnect callback.
newerClosed(s) ==
  [s EXCEPT !.newer = "closed", !.serviceRef = "null", !.eyeState = "IDLE",
            !.isActive = FALSE]

\* --------------------------------------------------------- transcripts
\* A delta is a token: n > 0 for text, -n for a whitespace-only fragment.
\* An accumulator is the sequence of the tokens concatenated into it.
IsBlank(text) == \A i \in 1..Len(text) : text[i] < 0

\* The updater given to setHistory, GeminiTTS.tsx lines 240-251.  An entry
\* is its role and text; the mode is 'assistant', the hook's initial mode, in
\* which originalText is undefined.
lastMsg(prev) == IF prev = << >> THEN << >> ELSE <<prev[Len(prev)]>>

\* An updater that appends without looking at the last message.
setHistory_noLastMsg(prev, role, text) ==
  Append(prev, [role |-> role, text |-> text])

setHistory(prev, role, text) ==
  IF /\ lastMsg(prev) # << >>
     /\ lastMsg(prev)[1].role = role
     /\ lastMsg(prev)[1].text = text
    THEN prev
    ELSE Append(prev, [role |-> role, text |-> text])

\* service.onTranscript as the host sets it, GeminiTTS.tsx lines 217-257:
\* the live subtitle is replaced, and a final text that is not blank goes
\* through setHistory and arms the timer that clears the subtitle.
hostOnTranscript(s, role, text, final) ==
  LET s1 == [s EXCEPT !.liveTranscript = <<[role |-> role, text |-> text]>>]
  IN  IF final /\ ~IsBlank(text)
        THEN [s1 EXCEPT !.history = setHistory(@, role, text),
                        !.liveClears = @ \cup {text}]
        ELSE s1

\* The timer of lines 253-255.
clearLiveTranscript(s, text) ==
  [s EXCEPT !.liveClears = @ \ {text},
            !.liveTranscript =
               IF @ # << >> /\ @[1].text = text THEN << >> ELSE @]

\* clearHistory, lines 280-282.
clearHistory(s) == [s EXCEPT !.history = << >>]

onTranscript(s, role, text, final) ==
  hostOnTranscript(
    [s EXCEPT !.transcripts =
       Append(@, [role |-> role, text |-> text, final |-> final,
                  turn |-> s.turn])],
    role, text, final)

\* Lines 275-283: a delta is appended and the accumulated text reported.
appendInput(s, blank) ==
  LET tok == IF blank THEN 0 - (s.nDeltas + 1) ELSE s.nDeltas + 1
      acc == Append(s.currentInputTranscription, tok)
  IN  onTranscript([s EXCEPT !.nDeltas = @ + 1,
                             !.currentInputTranscription = acc],
                   "user", acc, FALSE)

\* An append that replaces the accumulated text by the delta.
appendOutput_replaces(s, blank) ==
  LET tok == IF blank THEN 0 - (s.nDeltas + 1) ELSE s.nDeltas + 1
      acc == <<tok>>
  IN  onTranscript([s EXCEPT !.nDeltas = @ + 1,
                             !.currentOutputTranscription = acc],
                   "model", acc, FALSE)

appendOutput(s, blank) ==
  LET tok == IF blank THEN 0 - (s.nDeltas + 1) ELSE s.nDeltas + 1
      acc == Append(s.currentOutputTranscription, tok)
  IN  onTranscript([s EXCEPT !.nDeltas = @ + 1,
                             !.currentOutputTranscription = acc],
                   "model", acc, FALSE)

\* A test that lets every accumulator through.
HasText_always(s, text) == TRUE

\* The test that guards finalization: non-empty in liveService.ts,
\* non-empty after trim() in part_009.
HasText(s, text) ==
  IF s.rev = "liveService" THEN text # << >> ELSE ~IsBlank(text)

\* A finalization that emits and keeps the accumulators.
turnComplete_keepsText(s) ==
  LET s0 == [s EXCEPT !.isInterrupted = FALSE,
                      !.completed =
                         Append(@, [user |-> s.currentInputTranscription,
                                    model |-> s.currentOutputTranscription])]
      s1 == IF HasText(s0, s0.currentInputTranscription)
              THEN onTranscript(s0, "user", s0.currentInputTranscription, TRUE)
              ELSE s0
      s2 == IF HasText(s1, s1.currentOutputTranscription)
              THEN onTranscript(s1, "model", s1.currentOutputTranscription, TRUE)
              ELSE s1
  IN  [s2 EXCEPT !.timers = @ \cup {"grace"}, !.turn = @ + 1]

\* Lines 285-298.
turnComplete(s) ==
  LET s0 == [s EXCEPT !.isInterrupted = FALSE,
                      !.completed =
                         Append(@, [user |-> s.currentInputTranscription,
                                    model |-> s.currentOutputTranscription])]
      s1 == IF HasText(s0, s0.currentInputTranscription)
              THEN [onTranscript(s0, "user", s0.currentInputTranscription, TRUE)
                      EXCEPT !.currentInputTranscription = << >>]
              ELSE s0
      s2 == IF HasText(s1, s1.currentOutputTranscription)
              THEN [onTranscript(s1, "model", s1.currentOutputTranscription, TRUE)
                      EXCEPT !.currentOutputTranscription = << >>]
              ELSE s1
  IN  [s2 EXCEPT !.timers = @ \cup {"grace"}, !.turn = @ + 1]

\* An interruption that keeps the output accumulator.
interrupted_keepsText(s) ==
  LET s1 == stopAudioPlayback(s)
  IN  [s1 EXCEPT !.isInterrupted = TRUE,
                 !.discarded = @ \cup {s.currentOutputTranscription[i] :
                                         i \in 1..Len(s.currentOutputTranscription)},
                 !.interruptedTurns = @ \cup {s.turn}]

\* An interruption that drops what the user said as well.
interrupted_clearsInput(s) ==
  LET s1 == stopAudioPlayback(s)
  IN  [s1 EXCEPT !.isInterrupted = TRUE,
                 !.discarded = @ \cup {s.currentOutputTranscription[i] :
                                         i \in 1..Len(s.currentOutputTranscription)},
                 !.currentOutputTranscription = << >>,
                 !.currentInputTranscription = << >>,
                 !.interruptedTurns = @ \cup {s.turn}]

\* Lines 268-273.
interrupted(s) ==
  LET s1 == stopAudioPlayback(s)
  IN  [s1 EXCEPT !.isInterrupted = TRUE,
                 !.discarded = @ \cup {s.currentOutputTranscription[i] :
                                         i \in 1..Len(s.currentOutputTranscription)},
                 !.currentOutputTranscription = << >>,
                 !.interruptedTurns = @ \cup {s.turn}]

\* ---------------------------------------------------------- tool calls
\* settings.fileContext, the knowledge base search_legal_docs looks into
\* (one paragraph).
KnowledgeBase == <<"a", "!">>

Includes(text, sub) ==
  \E i \in 0..(Len(text) - Len(sub)) : SubSeq(text, i + 1, i + Len(sub)) = sub

Command(s, id, cmd, url, title) ==
  [s EXCEPT !.commands =
     Append(@, [id |-> id, cmd |-> cmd, url |-> url, title |-> title])]

Result(status, value) == [status |-> status, value |-> value]

\* One function call: the side effect on the host and the result object.
\* liveService.ts, lines 308-329: a chain of independent ifs.
dispatchLive(s, id, fc) ==
  LET query == trim(stripQuotes(OrDefault(fc.search_query, << >>)))
  IN  CASE fc.name = "play_youtube_video" ->
             [s |-> Command(s, id, "video", query, PlayingPrefix \o query),
              r |-> Result("playing", query)]
        [] fc.name = "enter_deep_sleep" ->
             [s |-> Command(s, id, "deepSleep", << >>, << >>),
              r |-> Result("entering_sleep_mode", << >>)]
        [] fc.name = "open_settings" ->
             [s |-> Command(s, id, "openSettings", << >>, << >>),
              r |-> Result("settings_opened", << >>)]
        [] fc.name = "set_reminder" ->
             [s |-> s, r |-> Result("reminder_set", << >>)]
        [] fc.name = "report_language_change" ->
             [s |-> Command(s, id, "notification", << >>, << >>),
              r |-> Result("reported", << >>)]
        [] OTHER -> [s |-> s, r |-> Result("ok", << >>)]

\* part_009, lines 239-283: the identifier is tested against
\* /^[a-zA-Z0-9_-]{11}$/ and a failed test falls back to a title search.
dispatchValidating(s, id, fc) ==
  LET videoId == trim(OrDefault(fc.videoId, << >>))
      title == OrDefault(fc.title, DefaultTitle)
  IN  CASE fc.name = "play_youtube_video" ->
             IF isVideoId(videoId)
               THEN [s |-> Command(s, id, "video", videoId,
                                   PlayingPrefix \o title),
                     r |-> Result("playing", videoId)]
               ELSE [s |-> Command(s, id, "video", title,
                                   SearchPrefix \o title),
                     r |-> Result("fallback_search", title)]
        [] fc.name = "enter_deep_sleep" ->
             [s |-> Command(s, id, "deepSleep", << >>, << >>),
              r |-> Result("ok", << >>)]
        [] fc.name = "open_settings" ->
             [s |-> Command(s, id, "openSettings", << >>, << >>),
              r |-> Result("ok", << >>)]
        [] fc.name = "set_reminder" ->
             [s |-> s, r |-> Result("reminder_set", << >>)]
        [] fc.name = "report_language_change" ->
             [s |-> Command(s, id, "notification", << >>, << >>),
              r |-> Result("ok", << >>)]
        [] fc.name = "search_legal_docs" ->
             [s |-> s,
              r |-> IF KnowledgeBase = << >>
                      THEN Result("documents_empty", << >>)
                    ELSE IF Includes(KnowledgeBase, fc.query)
                      THEN Result("found", KnowledgeBase)
                    ELSE Result("not_found", << >>)]
        [] OTHER -> [s |-> s, r |-> Result("ok", << >>)]

dispatch(s, id, fc) ==
  IF s.rev = "liveService" THEN dispatchLive(s, id, fc)
  ELSE dispatchValidating(s, id, fc)

\* Lines 331-335: the result is sent only through a non-null sessionPromise.
respond(s, id, name, r) ==
  IF s.sessionPromise # "null"
    THEN thenSession(s, [k |-> "sendToolResponse", id |-> id, name |-> name,
                         status |-> r.status, value |-> r.value])
    ELSE s

\* The log keeps each call with whether the session promise was already
\* null when it was handled.
handleFunctionCall(s, fc) ==
  LET id == Len(s.calls) + 1
      s1 == [s EXCEPT !.calls =
               Append(@, [fc |-> fc, late |-> s.sessionPromise = "null"])]
      d == dispatch(s1, id, fc)
  IN  respond(d.s, id, fc.name, d.r)

RECURSIVE handleToolCall(_, _)
handleToolCall(s, functionCalls) ==
  IF functionCalls = << >> THEN s
  ELSE handleToolCall(handleFunctionCall(s, Head(functionCalls)),
                      Tail(functionCalls))

sendToolResponse(s, t) ==
  IF CanSend(s)
    THEN [s EXCEPT
            !.toolResults = Append(@, [id |-> t.id, name |-> t.name,
                                       status |-> t.status, value |-> t.value])]
    ELSE s

\* ------------------------------------------------------ inbound message
\* A test that lets audio through during an interruption.
acceptsAudio_always(s, m) == m.audio # 0

\* Line 263: the message carries audio and no interruption is pending.
acceptsAudio(s, m) == m.audio # 0 /\ ~s.isInterrupted

\* A message: audio is the duration of its chunk (0: none); inputText and
\* outputText are "none", "text" or "blank"; toolCall is the sequence of its
\* function calls.
handleMessage(s, m) ==
  LET s0 == [s EXCEPT !.nMsgs = @ + 1]
      s1 == IF acceptsAudio(s0, m)
              THEN LET id == Len(s0.chunks) + 1
                       sc == [s0 EXCEPT !.chunks =
                                Append(@, [dur |-> m.audio, turn |-> s0.turn])]
                   IN  onStateChange(playAudioChunk(sc, id), "SPEAKING")
              ELSE s0
      s2 == IF m.interrupted THEN interrupted(s1) ELSE s1
      s3 == IF m.inputText # "none"
              THEN appendInput(s2, m.inputText = "blank") ELSE s2
      s4 == IF m.outputText # "none"
              THEN appendOutput(s3, m.outputText = "blank") ELSE s3
      s5 == IF m.turnComplete THEN turnComplete(s4) ELSE s4
  IN  handleToolCall(s5, m.toolCall)

\* ------------------------------------------------------------ microtasks
runTask(s, t) ==
  CASE t.k = "connectResumed" -> liveConnect(s)
    [] t.k = "playResumed" -> playAudioChunkBody(s, t.id)
    [] t.k = "micResumed" -> [s EXCEPT !.pcMic = "awaitMic"]
    [] t.k = "connectCont" -> connectCont(s)
    [] t.k = "connectCatch" -> connectCatch(s)
    [] t.k = "sendFrame" -> sendFrame(s, t)
    [] t.k = "closePending" -> closePending(s)
    [] t.k = "sendToolResponse" -> sendToolResponse(s, t)

\* ----------------------------------------------------------------- Init
\* A LiveService after its construction.
InitLiveService ==
  /\ rev \in {"liveService", "part_009"}
  /\ ctxState \in {"suspended", "running"}
  /\ userVoiceSample \in BOOLEAN
  /\ session = "null" /\ sessionPromise = "null"
  /\ stream = "null" /\ processor = "null"
  /\ nextStartTime = 0 /\ audioSources = {} /\ isInterrupted = FALSE
  /\ currentInputTranscription = << >>
  /\ currentOutputTranscription = << >>
  /\ pcConnect = "new" /\ pcMic = "new"
  /\ promise = "none" /\ reactions = << >> /\ microtasks = << >>
  /\ resumeWaiters = << >> /\ currentTime = 0 /\ transport = "none"
  /\ timers = {} /\ endedPending = {}
  /\ serviceRef = "null" /\ eyeState = "IDLE" /\ errors = 0
  /\ disconnects = 0 /\ commands = << >> /\ transcripts = << >>
  /\ framesSent = 0 /\ voiceSent = 0 /\ closeCalls = 0
  /\ toolResults = << >> /\ effects = << >> /\ chunks = << >>
  /\ scheduled = << >> /\ calls = << >> /\ turn = 0
  /\ interruptedTurns = {} /\ nDeltas = 0 /\ discarded = {} /\ nMsgs = 0
  /\ nFrames = 0 /\ raced = FALSE /\ disconnected = FALSE
  /\ completed = << >> /\ captured = << >> /\ wire = << >>
  /\ newer = "none" /\ isActive = FALSE /\ debounce = "none"
  /\ recent = << >>
  /\ history = << >> /\ liveTranscript = << >> /\ liveClears = {}

\* No sample and no buffer handed to audioUtils.
NoBuffer == [length |-> 0, inputSampleRate |-> 1, outputSampleRate |-> 1]
NoSample ==
  /\ sample = 0 /\ pcm16 = << >> /\ decoded = << >>
NoResample ==
  /\ buffer = NoBuffer /\ resampled = << >>
NoFrame ==
  /\ int16Array = << >> /\ float32 = << >>
NoBase64 ==
  /\ base64 = << >> /\ arrayBuffer = << >>
NoBytes ==
  /\ bytes = << >> /\ NoBase64

Init == InitLiveService /\ NoSample /\ NoResample /\ NoFrame /\ NoBytes

\* -------------------------------------------------------------- actions
Quiet == microtasks = << >>

\* The host starts the session (useGeminiLive.connect).
HostConnect ==
  /\ Quiet /\ pcConnect = "new"
  /\ Set(hostConnect(Begin))

\* The host ends the session (useGeminiLive.disconnect); it only holds the
\* service until it disconnects it or is told of a disconnect.  raced
\* remembers that connect() had not yet seen its handle.
HostDisconnect ==
  /\ Quiet /\ serviceRef = "service"
  /\ Set([hostDisconnect(Begin) EXCEPT
            !.raced = pcConnect \in {"awaitResume", "awaitSession"}])

\* The host connects again, after the first service was created.
HostReconnect ==
  /\ Quiet /\ pcConnect # "new" /\ newer = "none"
  /\ Set([hostReconnect(Begin) EXCEPT
            !.raced = IF serviceRef = "service"
                        THEN pcConnect \in {"awaitResume", "awaitSession"}
                        ELSE @])

HostDisconnectNewer ==
  /\ Quiet /\ serviceRef = "newer"
  /\ Set(hostDisconnectNewer(Begin))

NewerClosed ==
  /\ Quiet /\ newer = "live"
  /\ Set(newerClosed(Begin))

\* The service reports a transcript to the host.
OnTranscript(role, text, final) ==
  /\ Quiet /\ Len(history) < MaxHistory
  /\ Set(hostOnTranscript(Begin, role, text, final))

\* A subtitle timer fires.
ClearLiveTranscript(text) ==
  /\ Quiet /\ text \in liveClears
  /\ Set(clearLiveTranscript(Begin, text))

\* The user clears the chat.
ClearHistory ==
  /\ Quiet /\ history # << >>
  /\ Set(clearHistory(Begin))

\* float32ToInt16 is applied to the sample.
Float32ToInt16 ==
  /\ pcm16 = << >>
  /\ Set([Begin EXCEPT !.pcm16 = <<float32ToInt16(sample)>>])

\* int16ToFloat32 is applied to the encoded sample.
Int16ToFloat32 ==
  /\ pcm16 # << >> /\ decoded = << >>
  /\ Set([Begin EXCEPT !.decoded = <<int16ToFloat32(pcm16[1])>>])

\* float32ToInt16 is applied to what downsampleBuffer returned, every
\* element of it being the sample (liveService.ts lines 406-411).
EncodeFrame ==
  /\ resampled # << >> /\ int16Array = << >>
  /\ Set([Begin EXCEPT !.int16Array =
            <<float32ToInt16Array([i \in 1..resampled[1].length |-> sample])>>])

\* int16ToFloat32 is applied to the buffer of the encoded frame.
DecodeFrame ==
  /\ int16Array # << >> /\ float32 = << >>
  /\ Set([Begin EXCEPT !.float32 =
            <<int16ToFloat32Array(ArrayBuffer(int16Array[1]))>>])

\* arrayBufferToBase64 is applied to the bytes.
ArrayBufferToBase64 ==
  /\ base64 = << >>
  /\ Set([Begin EXCEPT !.base64 = <<arrayBufferToBase64(bytes)>>])

\* base64ToArrayBuffer is applied to the text that was made.
Base64ToArrayBuffer ==
  /\ base64 # << >> /\ ~base64[1].threw /\ arrayBuffer = << >>
  /\ Set([Begin EXCEPT !.arrayBuffer = <<base64ToArrayBuffer(base64[1].data)>>])

\* downsampleBuffer is applied to the buffer.
DownsampleBuffer ==
  /\ resampled = << >>
  /\ Set([Begin EXCEPT !.resampled = <<downsampleBuffer(buffer)>>])

\* The audio context starts running: every pending resume() resolves, in
\* the order of the calls.
AudioContextResumed ==
  /\ Quiet /\ ctxState = "suspended"
  /\ Set([Begin EXCEPT !.ctxState = "running",
                                       !.microtasks = resumeWaiters,
                                       !.resumeWaiters = << >>])

\* The browser suspends the audio context (autoplay policy, interruption).
AudioContextSuspended ==
  /\ Quiet /\ ctxState = "running"
  /\ Set([Begin EXCEPT !.ctxState = "suspended"])

\* The socket opens: the transport calls onopen (handleOpen) and then
\* fulfils the promise connect() awaits, within the same task.
TransportOpen ==
  /\ Quiet /\ transport = "connecting"
  /\ LET s1 == handleOpen([Begin EXCEPT !.transport = "open"])
     IN  Set([s1 EXCEPT !.promise = "fulfilled",
                        !.microtasks = s1.reactions,
                        !.reactions = << >>])

\* The handshake fails: the promise is rejected, connect() catches.
TransportFail ==
  /\ Quiet /\ transport = "connecting"
  /\ Set([Begin EXCEPT
            !.transport = "closed", !.promise = "rejected",
            !.microtasks = <<Task("connectCatch")>>,
            !.reactions = << >>])

\* callbacks.onerror, lines 166-202.
TransportError ==
  /\ Quiet /\ transport = "open"
  /\ Set(onDisconnect(onError(onStateChange(
            [Begin EXCEPT !.transport = "errored"], "IDLE"))))

\* callbacks.onclose, lines 161-165.
TransportClosed ==
  /\ Quiet /\ transport \in {"open", "closing", "errored"}
  /\ Set(onDisconnect(onStateChange(
            [Begin EXCEPT !.transport = "closed"], "IDLE")))

MicGranted ==
  /\ Quiet /\ pcMic = "awaitMic"
  /\ Set(micGranted(Begin))

MicDenied ==
  /\ Quiet /\ pcMic = "awaitMic"
  /\ Set(micDenied(Begin))

CaptureFrame(rms, throws) ==
  /\ Quiet /\ processor = "connected" /\ nFrames < MaxFrames
  /\ Set(onaudioprocess(Begin, rms, throws))

\* A frame of speech whose send goes through.
AudioProcess == CaptureFrame(HighThreshold, FALSE)

\* An inbound message is delivered while the socket is open or closing.
NoCalls == << >>
Msg(audio, int, inText, outText, tc, toolCall) ==
  [audio |-> audio, interrupted |-> int, inputText |-> inText,
   outputText |-> outText, turnComplete |-> tc, toolCall |-> toolCall]

WithinBounds(m) ==
  /\ nMsgs < MaxMsgs
  /\ m.audio # 0 => Len(chunks) < MaxChunks
  /\ nDeltas + (IF m.inputText # "none" THEN 1 ELSE 0)
             + (IF m.outputText # "none" THEN 1 ELSE 0) <= MaxDeltas
  /\ Len(calls) + Len(m.toolCall) <= MaxCalls

Deliver(m) ==
  /\ Quiet /\ transport \in {"open", "closing"}
  /\ WithinBounds(m)
  /\ Set(handleMessage(Begin, m))

\* The output clock advances while the context runs.
Tick ==
  /\ Quiet /\ ctxState = "running" /\ currentTime < MaxTime
  /\ Set([Begin EXCEPT !.currentTime = @ + 1])

\* Past the horizon the clock still runs while a source has to play out.
PlayOut ==
  /\ Quiet /\ ctxState = "running" /\ currentTime >= MaxTime
  /\ \E i \in 1..Len(scheduled) :
       /\ scheduled[i].chunk \in audioSources
       /\ scheduled[i].start + scheduled[i].dur > currentTime
  /\ Set([Begin EXCEPT !.currentTime = @ + 1])

EndOf(id) ==
  LET i == CHOOSE j \in 1..Len(scheduled) : scheduled[j].chunk = id
  IN  scheduled[i].start + scheduled[i].dur

\* A live source plays to its end.
SourceEnded(id) ==
  /\ Quiet /\ id \in audioSources /\ EndOf(id) <= currentTime
  /\ Set(onended(Begin, id))

\* A force-stopped source reports its end.
StoppedSourceEnded(id) ==
  /\ Quiet /\ id \in endedPending
  /\ Set(onended([Begin EXCEPT !.endedPending = @ \ {id}], id))

DebounceTimer ==
  /\ Quiet /\ "debounce" \in timers
  /\ Set(debounceTimer(Begin))

GraceTimer ==
  /\ Quiet /\ "grace" \in timers
  /\ Set(graceTimer(Begin))

RunMicrotask ==
  /\ microtasks # << >>
  /\ Set(runTask([Begin EXCEPT !.microtasks = Tail(@)], Head(microtasks)))

\* ------------------------------------------------------- inbound inputs
FC(name, videoId, title, search_query, query) ==
  [name |-> name, videoId |-> videoId, title |-> title,
   search_query |-> search_query, query |-> query]

ValidId == Str(VideoIdLength, "a")
VideoIds ==
  { Undefined, ValidId, Str(VideoIdLength - 1, "a"), Str(VideoIdLength + 1, "a"),
    [ValidId EXCEPT ![5] = "!"], <<" ">> \o ValidId \o <<" ">>,
    <<"a", " ", "a">> }
Titles == { Undefined, <<"t">> }
Queries == { Undefined, <<"'", "a", " ">> }

ToolNames ==
  { "play_youtube_video", "enter_deep_sleep", "open_settings", "set_reminder",
    "report_language_change", "search_legal_docs", "unknown_tool" }

PlainCall(name) == FC(name, Undefined, Undefined, Undefined, Undefined)

FunctionCalls ==
  {FC("play_youtube_video", v, t, Undefined, Undefined) :
     v \in VideoIds, t \in Titles}
  \cup {FC("play_youtube_video", Undefined, Undefined, q, Undefined) :
          q \in Queries}
  \cup {FC("search_legal_docs", Undefined, Undefined, Undefined, q) :
          q \in {<<"a">>, <<" ">>}}
  \cup {PlainCall(n) : n \in ToolNames}

ToolBatches ==
  {<<fc>> : fc \in FunctionCalls}
  \cup {<<PlainCall(a), PlainCall(b)>> : a \in ToolNames, b \in ToolNames}

ToolMsgs == {Msg(0, FALSE, "none", "none", FALSE, b) : b \in ToolBatches}

\* Audio, interruption and turn boundary, alone and combined.
PlaybackMsgs ==
  { Msg(1, FALSE, "none", "none", FALSE, NoCalls),
    Msg(2, FALSE, "none", "none", FALSE, NoCalls),
    Msg(0, TRUE, "none", "none", FALSE, NoCalls),
    Msg(0, FALSE, "none", "none", TRUE, NoCalls),
    Msg(1, TRUE, "none", "none", FALSE, NoCalls),
    Msg(0, TRUE, "none", "none", TRUE, NoCalls) }

TranscriptMsgs ==
  {Msg(0, i, inT, outT, tc, NoCalls) :
     i \in BOOLEAN, inT \in {"none", "text", "blank"},
     outT \in {"none", "text", "blank"}, tc \in BOOLEAN}
  \ {Msg(0, FALSE, "none", "none", FALSE, NoCalls)}

\* Audio and model text, interrupted or not, with or without a turn boundary.
InterruptMsgs ==
  {Msg(a, i, "none", outT, tc, NoCalls) :
     a \in {0, 1}, i \in BOOLEAN,
     outT \in {"none", "text", "blank"}, tc \in BOOLEAN}
  \ {Msg(0, FALSE, "none", "none", FALSE, NoCalls)}

\* One message of each kind.
CoreMsgs ==
  { Msg(1, FALSE, "none", "none", FALSE, NoCalls),
    Msg(0, TRUE, "none", "none", FALSE, NoCalls),
    Msg(0, FALSE, "none", "text", TRUE, NoCalls),
    Msg(0, FALSE, "none", "none", FALSE, <<PlainCall("open_settings")>>) }

\* ------------------------------------------------------- specifications
\* The session from construction to its end.
Session ==
  \/ HostConnect
  \/ HostDisconnect
  \/ AudioContextResumed
  \/ TransportOpen
  \/ RunMicrotask

Failures ==
  \/ TransportFail
  \/ TransportError
  \/ TransportClosed
  \/ MicDenied

Capture ==
  \/ MicGranted
  \/ AudioProcess

Host ==
  \/ HostReconnect
  \/ HostDisconnectNewer
  \/ NewerClosed

\* The texts a service reports: one or two fragments, blank or not.
Texts == { << >>, <<1>>, <<0 - 1>>, <<1, 0 - 1>>, <<2>> }
Roles == {"user", "model"}

Chat ==
  \/ \E role \in Roles, text \in Texts, final \in BOOLEAN :
       OnTranscript(role, text, final)
  \/ \E text \in Texts : ClearLiveTranscript(text)
  \/ ClearHistory

AudioUtils ==
  \/ Float32ToInt16
  \/ Int16ToFloat32
  \/ DownsampleBuffer
  \/ EncodeFrame
  \/ DecodeFrame
  \/ ArrayBufferToBase64
  \/ Base64ToArrayBuffer

Playback ==
  \/ AudioContextSuspended
  \/ Tick
  \/ \E id \in 1..MaxChunks : SourceEnded(id)
  \/ \E id \in 1..MaxChunks : StoppedSourceEnded(id)
  \/ DebounceTimer
  \/ GraceTimer

Next ==
  \/ Session
  \/ Failures
  \/ Capture
  \/ Host
  \/ Chat
  \/ AudioUtils
  \/ Playback
  \/ \E m \in CoreMsgs : Deliver(m)

Spec == Init /\ [][Next]_vars

\* The session with its capture path and its failures, audio inbound.
AudioMsgs == { Msg(1, FALSE, "none", "none", FALSE, NoCalls) }

InitSession ==
  Init /\ userVoiceSample = FALSE

NextSession ==
  \/ Session
  \/ Failures
  \/ Capture
  \/ \E m \in AudioMsgs : Deliver(m)

SpecSession == InitSession /\ [][NextSession]_vars

\* The session with tool calls inbound.
InitTools ==
  Init /\ userVoiceSample = FALSE

NextTools ==
  \/ Session
  \/ \E m \in ToolMsgs : Deliver(m)

SpecTools == InitTools /\ [][NextTools]_vars

\* The playback scheduler under audio, interruption and turn boundaries.
InitPlayback ==
  Init /\ userVoiceSample = FALSE

NextPlayback ==
  \/ Session
  \/ Playback
  \/ \E m \in PlaybackMsgs : Deliver(m)

SpecPlayback == InitPlayback /\ [][NextPlayback]_vars

\* The transcript aggregator.
NextTranscript ==
  \/ Session
  \/ \E m \in TranscriptMsgs : Deliver(m)

SpecTranscript == InitPlayback /\ [][NextTranscript]_vars

\* Interruptions of a speaking model.
NextInterrupt ==
  \/ Session
  \/ \E m \in InterruptMsgs : Deliver(m)

SpecInterrupt == InitPlayback /\ [][NextInterrupt]_vars

\* A turn of the model: audio and text, closed by turnComplete, with the
\* timers and the clock.
TurnMsgs ==
  {Msg(a, FALSE, "none", outT, tc, NoCalls) :
     a \in {0, 1}, outT \in {"none", "text"}, tc \in BOOLEAN}
  \ {Msg(0, FALSE, "none", "none", FALSE, NoCalls)}

NextTurn ==
  \/ Session
  \/ Tick
  \/ \E id \in 1..MaxChunks : SourceEnded(id)
  \/ DebounceTimer
  \/ GraceTimer
  \/ \E m \in TurnMsgs : Deliver(m)

SpecTurn == InitPlayback /\ [][NextTurn]_vars

\* Playback running idle: what the remote side sends is free, the clock,
\* the sources, the timers and the continuations run.
ListenMsgs ==
  { Msg(1, FALSE, "none", "none", FALSE, NoCalls),
    Msg(Undecodable, FALSE, "none", "none", FALSE, NoCalls),
    Msg(0, TRUE, "none", "none", FALSE, NoCalls),
    Msg(0, FALSE, "none", "none", TRUE, NoCalls) }

NextListening ==
  \/ Session
  \/ Tick
  \/ PlayOut
  \/ \E id \in 1..MaxChunks : SourceEnded(id)
  \/ \E id \in 1..MaxChunks : StoppedSourceEnded(id)
  \/ DebounceTimer
  \/ GraceTimer
  \/ \E m \in ListenMsgs : Deliver(m)

FairListening ==
  /\ WF_vars(RunMicrotask)
  /\ WF_vars(Tick)
  /\ WF_vars(PlayOut)
  /\ WF_vars(\E id \in 1..MaxChunks : SourceEnded(id))
  /\ WF_vars(\E id \in 1..MaxChunks : StoppedSourceEnded(id))
  /\ WF_vars(DebounceTimer)
  /\ WF_vars(GraceTimer)

SpecListening == InitPlayback /\ [][NextListening]_vars /\ FairListening

\* Inbound audio that decodes or not: a playable chunk, invalid base64, an
\* odd number of bytes, an empty payload.
EmptyPayload == Msg(0, FALSE, "none", "none", FALSE, NoCalls)
DecodeMsgs ==
  { Msg(1, FALSE, "none", "none", FALSE, NoCalls),
    Msg(Undecodable, FALSE, "none", "none", FALSE, NoCalls),
    Msg(OddLength, FALSE, "none", "none", FALSE, NoCalls),
    EmptyPayload }

NextDecode ==
  \/ Session
  \/ AudioContextSuspended
  \/ Tick
  \/ \E id \in 1..MaxChunks : SourceEnded(id)
  \/ \E m \in DecodeMsgs : Deliver(m)

SpecDecode == InitPlayback /\ [][NextDecode]_vars

\* The capture path: frames of every level around the thresholds, sends
\* that throw or not.
RmsLevels ==
  {LowThreshold - 1, LowThreshold, HighThreshold - 1, HighThreshold}

NextCapture ==
  \/ Session
  \/ MicGranted
  \/ \E throws \in BOOLEAN : CaptureFrame(HighThreshold, throws)
  \/ TransportClosed

SpecCapture == InitPlayback /\ [][NextCapture]_vars

\* The noise gate while the assistant plays or is silent.
NextGate ==
  \/ Session
  \/ MicGranted
  \/ \E rms \in RmsLevels : CaptureFrame(rms, FALSE)
  \/ Tick
  \/ \E id \in 1..MaxChunks : SourceEnded(id)
  \/ \E m \in AudioMsgs : Deliver(m)

SpecGate == InitPlayback /\ [][NextGate]_vars

\* The host connecting a second time: the first service with its failures
\* and its inbound audio, and the newer service.
NextHost ==
  \/ Session
  \/ Failures
  \/ MicGranted
  \/ Host
  \/ \E m \in AudioMsgs : Deliver(m)

SpecHost == InitSession /\ [][NextHost]_vars

\* The codec on its own: every sample of the grid, and a little beyond the
\* clamped range, is encoded and decoded.
Samples == (0 - Grid - 2)..(Grid + 2)

InitCodec ==
  /\ InitLiveService /\ NoResample /\ NoFrame /\ NoBytes
  /\ rev = "liveService" /\ ctxState = "running" /\ userVoiceSample = FALSE
  /\ sample \in Samples /\ pcm16 = << >> /\ decoded = << >>

NextCodec ==
  \/ Float32ToInt16
  \/ Int16ToFloat32

SpecCodec == InitCodec /\ [][NextCodec]_vars

\* The downsampler on its own: every buffer length and every pair of rates
\* with the input rate at least the output rate.
Buffers ==
  [length : 0..MaxLength, inputSampleRate : 1..MaxRate,
   outputSampleRate : 1..MaxRate]

InitDownsample ==
  /\ InitLiveService /\ NoSample /\ NoFrame /\ NoBytes
  /\ rev = "liveService" /\ ctxState = "running" /\ userVoiceSample = FALSE
  /\ buffer \in {b \in Buffers : b.inputSampleRate >= b.outputSampleRate}
  /\ resampled = << >>

NextDownsample == DownsampleBuffer

SpecDownsample == InitDownsample /\ [][NextDownsample]_vars

\* The downsampler on buffers of every length at a few pairs of rates, the
\* rates of common audio devices among them.
RatePairs ==
  { <<2, 1>>, <<3, 2>>, <<7, 5>>, <<15, 11>>, <<15, 13>>,
    <<44100, 16000>>, <<48000, 16000>> }

InitDecimation ==
  /\ InitLiveService /\ NoSample /\ NoFrame /\ NoBytes
  /\ rev = "liveService" /\ ctxState = "running" /\ userVoiceSample = FALSE
  /\ \E length \in 0..MaxLength, rates \in RatePairs :
       buffer = [length |-> length, inputSampleRate |-> rates[1],
                 outputSampleRate |-> rates[2]]
  /\ resampled = << >>

SpecDecimation == InitDecimation /\ [][NextDownsample]_vars

\* The byte/text codec on its own: every sequence of up to MaxBytes bytes
\* taken from the ends and the middle of the byte range.
ByteValues == {0, 1, 62, 63, 64, 127, 128, 251, 255}
RECURSIVE SeqsUpTo(_, _)
SeqsUpTo(S, n) ==
  IF n = 0 THEN {<< >>}
  ELSE SeqsUpTo(S, n - 1)
         \cup {Append(q, x) : q \in {q \in SeqsUpTo(S, n - 1) : Len(q) = n - 1},
                               x \in S}

InitBase64 ==
  /\ InitLiveService /\ NoSample /\ NoResample /\ NoFrame
  /\ rev = "liveService" /\ ctxState = "running" /\ userVoiceSample = FALSE
  /\ bytes \in SeqsUpTo(ByteValues, MaxBytes) /\ NoBase64

NextBase64 ==
  \/ ArrayBufferToBase64
  \/ Base64ToArrayBuffer

SpecBase64 == InitBase64 /\ [][NextBase64]_vars

\* A captured frame through the downsampler, the encoder and the decoder:
\* short frames of every sample, and the frame of the script processor
\* (liveService.ts line 378) at the sample rates of common audio devices,
\* resampled to the rate of line 406.
ScriptProcessorSize == 4096
OutputSampleRate == 16000
InputSampleRates == {16000, 44100, 48000}
FrameSamples == {Grid + 1}

InitFrame ==
  /\ InitLiveService
  /\ rev = "liveService" /\ ctxState = "running" /\ userVoiceSample = FALSE
  /\ pcm16 = << >> /\ decoded = << >> /\ resampled = << >> /\ NoFrame
  /\ NoBytes
  /\ buffer \in [length : (0..MaxSamples) \cup {ScriptProcessorSize},
                 inputSampleRate : InputSampleRates,
                 outputSampleRate : {OutputSampleRate}]
  /\ sample \in IF buffer.length = ScriptProcessorSize THEN FrameSamples
                ELSE Samples

NextFrame ==
  \/ DownsampleBuffer
  \/ EncodeFrame
  \/ DecodeFrame

SpecFrame == InitFrame /\ [][NextFrame]_vars

\* The session opening with or without a reference voice sample, and the
\* microphone after it.
NextVoice ==
  \/ Session
  \/ Capture
  \/ TransportClosed

SpecVoice == Init /\ [][NextVoice]_vars

\* The host's transcript handler on its own, called with every role, text
\* and finality.
InitHistory ==
  /\ Init
  /\ rev = "liveService" /\ ctxState = "running" /\ userVoiceSample = FALSE

SpecHistory == InitHistory /\ [][Chat]_vars

\* =============================================================== claims

\* C1 (disconnect race), as claimed, for the revision the host imports
\* (src/services/liveService.ts): when disconnect() ran after connect() had
\* started and before the transport handle resolved, no audio frame is ever
\* sent on that transport, the handle never becomes the stored session, and
\* once the handle has resolved it has been closed.
C1_DisconnectRace ==
  (rev = "liveService" /\ raced) =>
    /\ framesSent = 0
    /\ session = "null"
    /\ (promise = "fulfilled" /\ Quiet) => closeCalls >= 1

\* C2 (barge-in atomicity), as claimed: once the interrupted signal of a
\* turn has been handled, no chunk of that turn is in the live-source set
\* (the set was emptied then, so any such chunk was enqueued afterwards).
C2_NoEnqueueAfterBargeIn ==
  \A id \in audioSources : chunks[id].turn \notin interruptedTurns

\* What the dispatcher did for call id.
ResultsOf(id) == {i \in 1..Len(toolResults) : toolResults[i].id = id}
CommandsOf(id) == {i \in 1..Len(commands) : commands[i].id = id}

\* C3, as claimed: every ToolCall received gets exactly one ToolResult with
\* its id and name, whatever its name and its place in a batch (read when
\* the sends the handler queued have run).
C3_ExactlyOneResult ==
  Quiet =>
    \A id \in 1..Len(calls) :
      /\ Cardinality(ResultsOf(id)) = 1
      /\ \A i \in ResultsOf(id) : toolResults[i].name = calls[id].fc.name

\* C4, as claimed: a tool call handled after disconnect() (sessionPromise
\* already null) still has an observable outcome, a sent result or an error
\* reported to the host.
C4_NoSilentDrop ==
  Quiet =>
    \A id \in 1..Len(calls) :
      calls[id].late => (ResultsOf(id) # {} \/ errors > 0)

\* The identifier the claim calls well formed: exactly 11 characters of
\* [a-zA-Z0-9_-].
WellFormedId(str) ==
  /\ Len(str) = 11
  /\ \A i \in 1..Len(str) : str[i] = "a"

IsPlay(id) == calls[id].fc.name = "play_youtube_video"

Stops == StopCount(Cur)
EndOfEntry(i) == scheduled[i].start + scheduled[i].dur
SameRun(i) == i > 1 /\ scheduled[i].epoch = scheduled[i - 1].epoch

\* C6, as claimed: between two stops of playback, every chunk starts exactly
\* where the chunk before it ends, whatever the clock reads when it is
\* enqueued.
C6_GaplessAlways ==
  \A i \in 1..Len(scheduled) :
    SameRun(i) => scheduled[i].start = EndOfEntry(i - 1)

\* C6, amended: between two stops of playback, every chunk starts where the
\* chunk before it ends or, when the clock has already passed that point, at
\* the clock value read when it is enqueued; intervals scheduled between two
\* stops never overlap.
C6_GaplessUnlessUnderrun ==
  /\ \A i \in 1..Len(scheduled) :
       SameRun(i) =>
         scheduled[i].start =
           IF EndOfEntry(i - 1) < scheduled[i].at
             THEN scheduled[i].at ELSE EndOfEntry(i - 1)
  /\ \A i, j \in 1..Len(scheduled) :
       (i < j /\ scheduled[i].epoch = scheduled[j].epoch) =>
         EndOfEntry(i) <= scheduled[j].start

\* Two chunks of one run, the second enqueued after the first had played out.
C6_Witness ==
  \E i \in 1..Len(scheduled) :
    SameRun(i) /\ scheduled[i].start > EndOfEntry(i - 1)

\* C7 (barge-in postcondition): every step in which stopAudioPlayback() runs
\* ends with no live source and the cursor not after the clock, and every
\* chunk is scheduled at or after the clock value read when it is enqueued.
C7_StopPostcondition ==
  /\ [](\A i \in 1..Len(scheduled) : scheduled[i].start >= scheduled[i].at)
  /\ [][Stops' > Stops =>
          audioSources' = {} /\ nextStartTime' <= currentTime']_vars

\* A chunk enqueued after a stop that cut a chunk short, the clock having
\* advanced since.
C7_Witness ==
  \E i \in 1..Len(scheduled) :
    /\ i > 1 /\ scheduled[i].epoch > scheduled[i - 1].epoch
    /\ scheduled[i].at > 0
    /\ scheduled[i].at < EndOfEntry(i - 1)

\* C8 (cursor monotonicity): nextStartTime never decreases in a step in
\* which stopAudioPlayback() does not run.
C8_CursorMonotone ==
  [][nextStartTime' < nextStartTime => Stops' > Stops]_vars

\* The cursor stands before the end of a chunk scheduled earlier: a stop
\* has lowered it, and a chunk has been enqueued since.
C8_Witness ==
  /\ Len(scheduled) >= 2
  /\ \E i \in 1..Len(scheduled) : nextStartTime < EndOfEntry(i)

\* ------------------------------------------------------- interruption
TokensOf(text) == {text[i] : i \in 1..Len(text)}
FinalModel(i) == transcripts[i].final /\ transcripts[i].role = "model"

\* C9 (interruption handling): the delivery of a message with the
\* interrupted flag leaves no live source, emits no final model transcript
\* for the text accumulated so far, drops that text from the accumulator and
\* leaves the reported state Listening; text discarded by an interruption
\* is in no final model transcript.
C9_InterruptionHandling ==
  /\ [](\A i \in 1..Len(transcripts) :
          FinalModel(i) => TokensOf(transcripts[i].text) \cap discarded = {})
  /\ [][\A m \in InterruptMsgs :
          (m.interrupted /\ nMsgs' # nMsgs /\ Deliver(m)) =>
            /\ audioSources' = {}
            /\ eyeState' = "LISTENING"
            /\ TokensOf(currentOutputTranscription) \subseteq discarded'
            /\ TokensOf(currentOutputTranscription')
                 \cap TokensOf(currentOutputTranscription) = {}]_vars

\* An interruption stopped a live source and discarded text, and a model
\* transcript has been finalized since.
C9_Witness ==
  /\ discarded # {}
  /\ endedPending # {}
  /\ \E i \in 1..Len(transcripts) : FinalModel(i)

\* ---------------------------------------------------------- disconnect
IsOp(i, op) == effects[i].op = op

\* C10 (disconnect ordering): whenever the transport is closed, the
\* microphone is not live and no source is playing, playback has been
\* stopped before, and every release of the microphone and of the filter
\* graph came before that stop.
C10_DisconnectOrdering ==
  \A k \in 1..Len(effects) :
    IsOp(k, "close") =>
      /\ ~effects[k].micLive
      /\ ~effects[k].playing
      /\ \E j \in 1..(k - 1) : IsOp(j, "stopAudioPlayback")
      /\ \A i \in 1..Len(effects) :
           (IsOp(i, "micStop") \/ IsOp(i, "graphDisconnect")) =>
             \E j \in (i + 1)..(k - 1) : IsOp(j, "stopAudioPlayback")

\* A session with a live microphone and a playing source was disconnected
\* and its transport closed.
C10_Witness ==
  /\ endedPending # {}
  /\ \E i, j, k \in 1..Len(effects) :
       IsOp(i, "micStop") /\ IsOp(j, "graphDisconnect") /\ IsOp(k, "close")

\* ------------------------------------------------------------ lifecycle
\* C11 (nothing outlives the session), as claimed: once disconnect() has
\* run the microphone is not capturing and no source is live, and no step
\* sends an audio frame, a voice sample or note, or a tool result.
C11_NothingOutlivesSession ==
  /\ [](disconnected => (stream # "live" /\ audioSources = {}))
  /\ [][disconnected =>
          /\ framesSent' = framesSent
          /\ voiceSent' = voiceSent
          /\ toolResults' = toolResults]_vars

\* The session is over for the host: it disconnected, or it was told of a
\* disconnect (transport closed, fatal error).
Closed == disconnected \/ disconnects > 0

\* C12 (closed is terminal), as claimed: once the session is over, the state
\* the host sees is Idle.
C12_ClosedIsTerminal ==
  Closed => eyeState = "IDLE"

\* C13 (errors terminate the session), as claimed: after an error was
\* reported the host has been told of the disconnect, the microphone and
\* its graph are released, nothing plays, the transport is not open, and no
\* step captures a frame or schedules a chunk.
C13_ErrorsTerminate ==
  /\ [](errors > 0 =>
          /\ disconnects > 0
          /\ stream # "live" /\ processor # "connected"
          /\ audioSources = {}
          /\ transport \notin {"connecting", "open"})
  /\ [][errors > 0 =>
          /\ nFrames' = nFrames /\ framesSent' = framesSent
          /\ scheduled' = scheduled]_vars

\* ---------------------------------------------------------- transcripts
Finals(role, t) ==
  {i \in 1..Len(transcripts) :
     /\ transcripts[i].final /\ transcripts[i].role = role
     /\ transcripts[i].turn = t}
Partials(role, t) ==
  {i \in 1..Len(transcripts) :
     /\ ~transcripts[i].final /\ transcripts[i].role = role
     /\ transcripts[i].turn = t}

\* Text that finalization lets through: any text in liveService.ts, text
\* with a character that is not whitespace in part_009.
Textful(text) ==
  IF rev = "liveService" THEN text # << >>
  ELSE \E i \in 1..Len(text) : text[i] > 0

\* C14, as claimed: every turn closed by a turnComplete has exactly one final
\* event for each role.
C14_OneFinalPerRoleAndTurn ==
  \A t \in 1..Len(completed) : \A r \in Roles :
    Cardinality(Finals(r, t - 1)) = 1

\* C14, amended: every turn closed by a turnComplete has at most one final
\* event for each role: one when the role's accumulator held text at the
\* turnComplete, none when it held none.
C14_AtMostOneFinal ==
  \A t \in 1..Len(completed) : \A r \in Roles :
    Cardinality(Finals(r, t - 1)) =
      IF Textful(completed[t][r]) THEN 1 ELSE 0

\* A closed turn with a final event for one role and none for the other.
C14_Witness ==
  \E t \in 1..Len(completed) : \E r, q \in Roles :
    Finals(r, t - 1) # {} /\ Finals(q, t - 1) = {}

IsPrefix(a, b) == Len(a) <= Len(b) /\ SubSeq(b, 1, Len(a)) = a

\* The event before event j among the non-final events of its role and turn.
Previous(i, j) ==
  /\ i < j
  /\ i \in Partials(transcripts[j].role, transcripts[j].turn)
  /\ \A k \in Partials(transcripts[j].role, transcripts[j].turn) :
       ~(i < k /\ k < j)

\* C15, as claimed: within a turn every non-final event of a role extends
\* the text of the non-final event of that role before it.
C15_GrowingPrefixes ==
  \A i, j \in 1..Len(transcripts) :
    (~transcripts[j].final /\ Previous(i, j)) =>
      IsPrefix(transcripts[i].text, transcripts[j].text)

\* C15, amended: within a turn every non-final user event extends the one
\* before it; a non-final model event extends the one before it unless an
\* interruption discarded that text in between, and then it shares no text
\* with it.
C15_GrowingPrefixesUntilInterrupted ==
  \A i, j \in 1..Len(transcripts) :
    (~transcripts[j].final /\ Previous(i, j)) =>
      \/ IsPrefix(transcripts[i].text, transcripts[j].text)
      \/ /\ transcripts[j].role = "model"
         /\ TokensOf(transcripts[i].text) \subseteq discarded
         /\ TokensOf(transcripts[i].text) \cap TokensOf(transcripts[j].text) = {}

\* Two model events of one turn with an interruption between them.
C15_Witness ==
  \E i, j \in 1..Len(transcripts) :
    /\ ~transcripts[j].final /\ Previous(i, j)
    /\ ~IsPrefix(transcripts[i].text, transcripts[j].text)

\* The turn in which delta d arrived, read off the non-final event it made.
ArrivedIn(d, t) ==
  \E i \in 1..Len(transcripts) :
    /\ ~transcripts[i].final /\ transcripts[i].turn = t
    /\ transcripts[i].text[Len(transcripts[i].text)] = d

\* Deltas are numbered as they arrive; whitespace deltas carry the sign.
Order(d) == IF d < 0 THEN 0 - d ELSE d
Ascending(text) ==
  \A i, j \in 1..Len(text) : i < j => Order(text[i]) < Order(text[j])

\* C16 (turn finalization), as claimed: a non-empty accumulator yields, at
\* the turnComplete, one final event with exactly its text, made of deltas
\* of that turn in arrival order; every turnComplete leaves both accumulators
\* empty.
C16_FinalizationClears ==
  /\ [](\A t \in 1..Len(completed) : \A r \in Roles :
          completed[t][r] # << >> =>
            /\ Cardinality(Finals(r, t - 1)) = 1
            /\ \A i \in Finals(r, t - 1) :
                 /\ transcripts[i].text = completed[t][r]
                 /\ Ascending(transcripts[i].text)
                 /\ \A d \in TokensOf(transcripts[i].text) : ArrivedIn(d, t - 1))
  /\ [][Len(completed') > Len(completed) =>
          /\ currentInputTranscription' = << >>
          /\ currentOutputTranscription' = << >>]_vars

\* C17 (finalization is idempotent): a turn in which no delta arrived for a
\* role, closed right after another turnComplete, has no final event for
\* that role.
C17_SecondFinalizationSilent ==
  \A t \in 2..Len(completed) : \A r \in Roles :
    Partials(r, t - 1) = {} => Finals(r, t - 1) = {}

\* A turn was finalized with text, and the next turnComplete came with no
\* delta in between.
C17_Witness ==
  \E t \in 2..Len(completed) : \E r \in Roles :
    /\ Finals(r, t - 2) # {}
    /\ \A q \in Roles : Partials(q, t - 1) = {}

\* ------------------------------------------------------ playback states
\* C18 (stop is idempotent): in every state, stopAudioPlayback() leaves the
\* live set empty, and a second call right after it leaves the live set and
\* nextStartTime as the first did and reports no error.
C18_StopIdempotent ==
  LET once == stopAudioPlayback(Cur)
      twice == stopAudioPlayback(once)
  IN  /\ once.audioSources = {}
      /\ twice.audioSources = once.audioSources
      /\ twice.nextStartTime = once.nextStartTime
      /\ once.errors = errors /\ twice.errors = errors
      /\ twice.disconnects = disconnects

\* Playback was stopped twice with no source ever scheduled, and the live
\* set and the cursor are as a stop leaves them.
C18_Witness ==
  /\ Stops >= 2 /\ scheduled = << >>
  /\ audioSources = {} /\ nextStartTime = currentTime

\* No source is live and no chunk waits for the audio context.
PlaybackIdle ==
  /\ audioSources = {}
  /\ \A i \in 1..Len(resumeWaiters) : resumeWaiters[i].k # "playResumed"
  /\ \A i \in 1..Len(microtasks) : microtasks[i].k # "playResumed"

\* C19 (Listening is re-entered), as claimed: Speaking with playback idle
\* does not last: the state leaves Speaking, or a chunk is enqueued.
C19_ListeningReentered ==
  (eyeState = "SPEAKING" /\ PlaybackIdle)
    ~> (eyeState # "SPEAKING" \/ ~PlaybackIdle)

\* The final events of role r for the turn that is open in this state, as
\* they stand after the step.
FinalsAfter(r) ==
  {i \in 1..Len(transcripts') :
     /\ transcripts'[i].final /\ transcripts'[i].role = r
     /\ transcripts'[i].turn = turn}

\* C20 (turn completion): the step that handles turnComplete emits the
\* final events of the turn and arms the grace timer, and does not itself
\* change the reported state; the grace timer reports Listening when no
\* source is live as it fires, and leaves the state alone otherwise.
C20_TurnCompletion ==
  /\ [][Len(completed') > Len(completed) =>
          /\ "grace" \in timers'
          /\ \A r \in Roles :
               Cardinality(FinalsAfter(r)) =
                 IF Textful(completed'[Len(completed')][r]) THEN 1 ELSE 0]_vars
  /\ [][\A m \in TurnMsgs :
          (m.turnComplete /\ m.audio = 0 /\ Deliver(m)) =>
            eyeState' = eyeState]_vars
  /\ [][GraceTimer =>
          IF audioSources = {} THEN eyeState' = "LISTENING"
          ELSE eyeState' = eyeState]_vars

\* The grace timer of a closed turn has fired while the chunk of that turn
\* was playing: the state is still Speaking.
C20_Witness ==
  /\ Len(completed) = 1 /\ Len(chunks) = 1 /\ "grace" \notin timers
  /\ eyeState = "SPEAKING"
  /\ \E id \in audioSources : chunks[id].turn < turn

\* ------------------------------------------------------- malformed audio
IsMalformed(m) == m.audio \in {Undecodable, OddLength} \/ m = EmptyPayload

\* The continuation that runs next is playAudioChunk resuming on a payload
\* that does not decode.
MalformedResumes ==
  /\ microtasks # << >>
  /\ Head(microtasks).k = "playResumed"
  /\ chunks[Head(microtasks).id].dur \in {Undecodable, OddLength}

DroppedQuietly ==
  /\ audioSources' = audioSources /\ nextStartTime' = nextStartTime
  /\ scheduled' = scheduled
  /\ errors' = errors /\ disconnects' = disconnects
  /\ transport' = transport /\ session' = session
  /\ sessionPromise' = sessionPromise

\* C21 (malformed audio is dropped): the step that handles a chunk that
\* does not decode, on arrival or when playAudioChunk resumes, leaves the
\* live set, the cursor and the connection as they are and reports no error
\* and no disconnect; a playable chunk that arrives with the context running
\* and no interruption pending is scheduled, whatever came before it.
C21_MalformedChunkDropped ==
  /\ [][\A m \in DecodeMsgs : (IsMalformed(m) /\ Deliver(m)) => DroppedQuietly]_vars
  /\ [][(MalformedResumes /\ RunMicrotask) => DroppedQuietly]_vars
  /\ [][\A m \in DecodeMsgs :
          (m.audio > 0 /\ ctxState = "running" /\ ~isInterrupted /\ Deliver(m)) =>
            /\ Len(scheduled') = Len(scheduled) + 1
            /\ scheduled'[Len(scheduled')].start =
                 (IF nextStartTime < currentTime
                    THEN currentTime ELSE nextStartTime)]_vars

\* A playable chunk was scheduled after a chunk that did not decode, the
\* clock having passed the cursor when that one arrived.
C21_Witness ==
  \E i \in 1..Len(scheduled) :
    /\ scheduled[i].chunk = 2
    /\ chunks[1].dur \in {Undecodable, OddLength}
    /\ scheduled[i].at > 0

\* C22 (frame order): the frames that reach the transport reach it in
\* capture order: of any two frames sent, the one captured first is sent
\* first, and no frame is sent twice.
C22_FramesInCaptureOrder ==
  \A i \in 1..Len(wire) : \A j \in 1..Len(wire) :
    i < j => wire[i].id < wire[j].id

\* Two captured frames have both been sent.
C22_Witness ==
  /\ Len(wire) >= 2
  /\ wire[1].id = 1 /\ wire[2].id = 2

\* --------------------------------------------------------- arrival order
\* C23, as claimed: of any two chunks scheduled, the one that arrived first
\* starts strictly earlier.
C23_ArrivalOrderAlways ==
  \A i, j \in 1..Len(scheduled) :
    scheduled[i].chunk < scheduled[j].chunk =>
      scheduled[i].start < scheduled[j].start

\* C23, amended: chunks are scheduled in the order of their arrival, also
\* when they waited for the audio context to resume, and of two chunks
\* scheduled with no stop of playback in between the one that arrived first
\* starts strictly earlier and ends no later than the other starts.
C23_ArrivalOrderWithinRun ==
  \A i, j \in 1..Len(scheduled) :
    scheduled[i].chunk < scheduled[j].chunk =>
      /\ i < j
      /\ scheduled[i].epoch = scheduled[j].epoch =>
           /\ scheduled[i].start < scheduled[j].start
           /\ EndOfEntry(i) <= scheduled[j].start

\* Two chunks that arrived one after the other are scheduled at the same
\* clock value, with no stop in between.
C23_Witness ==
  \E i \in 1..Len(scheduled) :
    /\ SameRun(i)
    /\ scheduled[i - 1].chunk < scheduled[i].chunk
    /\ scheduled[i - 1].at = scheduled[i].at
    /\ scheduled[i - 1].start < scheduled[i].start

\* ------------------------------------------------------- host reference
\* C24, as claimed: when the host connects again the service it holds is
\* disconnected before the newer one is created, and as long as the newer
\* service is live the host holds it and shows it active, whatever the
\* previous service reports afterwards.
C24_HostHoldsLiveService ==
  /\ [](newer = "live" => serviceRef = "newer" /\ isActive)
  /\ [][(newer = "none" /\ newer' = "live" /\ serviceRef = "service") =>
          disconnected']_vars

\* ------------------------------------------------------------------ codec
\* The error of the round trip, times Grid * 32768: x - x' for the sample
\* x = sample / Grid and its decoding x'.
RoundTripError == sample * Int16Scale - decoded[1].num * Grid
InRange == 0 - Grid <= sample /\ sample <= Grid

\* C25, as claimed: for every sample x of [-1, 1], decoding the encoding of
\* x gives x' with |x - x'| <= 1/32768.
C25_RoundTripWithinOneStep ==
  (decoded # << >> /\ InRange) =>
    /\ RoundTripError <= Grid
    /\ 0 - Grid <= RoundTripError

\* C25, amended: for a negative x the decoding x' lies in [x, x + 1/32768);
\* for a non-negative x it lies in (x - 2/32768, x], and x = 0 and x = 1
\* decode to 0 and 32767/32768.
C25_RoundTripWithinTwoSteps ==
  (decoded # << >> /\ InRange) =>
    /\ decoded[1].den = Int16Scale
    /\ sample < 0 => 0 - Grid < RoundTripError /\ RoundTripError <= 0
    /\ sample >= 0 => 0 <= RoundTripError /\ RoundTripError < 2 * Grid
    /\ sample = 0 => decoded[1].num = 0
    /\ sample = Grid => decoded[1].num = PositiveScale
    /\ sample = 0 - Grid => decoded[1].num = 0 - Int16Scale

\* A positive sample decoded more than 1/32768 below its value.
C25_Witness ==
  /\ decoded # << >> /\ InRange /\ sample > 0
  /\ RoundTripError > Grid

\* ------------------------------------------------------------ downsampling
\* C26, as claimed: for input rate above output rate downsampleBuffer
\* returns exactly floor(n * r_out / r_in) samples, and for equal rates it
\* returns the input buffer itself.
C26_DownsampleLength ==
  resampled # << >> =>
    IF buffer.inputSampleRate = buffer.outputSampleRate
      THEN resampled[1].same /\ resampled[1].length = buffer.length
      ELSE resampled[1].length =
             (buffer.length * buffer.outputSampleRate)
               \div buffer.inputSampleRate

\* ---------------------------------------------------------- frame sends
\* The continuation about to run is the send of a frame; the send throws.
SendRuns ==
  /\ microtasks # << >> /\ Head(microtasks).k = "sendFrame"
  /\ RunMicrotask
SendThrows == SendRuns /\ Head(microtasks).name = "throws"

\* C27 (failed send): a send that throws ends no session, reports nothing
\* to the host and puts nothing on the wire; every frame's send is attempted
\* at most once; and a send that does not throw, on an open socket, puts its
\* frame on the wire whatever happened to the frames before it.
C27_FailedSendSwallowed ==
  /\ [][SendThrows =>
          /\ errors' = errors /\ disconnects' = disconnects
          /\ eyeState' = eyeState /\ serviceRef' = serviceRef
          /\ isActive' = isActive
          /\ session' = session /\ sessionPromise' = sessionPromise
          /\ transport' = transport /\ closeCalls' = closeCalls
          /\ stream' = stream /\ processor' = processor
          /\ wire' = wire /\ framesSent' = framesSent
          /\ microtasks' = Tail(microtasks)]_vars
  /\ [](\A i \in 1..Len(captured) : captured[i].attempts <= 1)
  /\ [][(SendRuns /\ ~SendThrows /\ transport = "open") =>
          /\ Len(wire') = Len(wire) + 1
          /\ wire'[Len(wire')].id = Head(microtasks).id]_vars

\* The send of the first frame threw and the second frame is on the wire.
C27_Witness ==
  /\ Len(captured) >= 2
  /\ captured[1].attempts = 1 /\ captured[2].attempts = 1
  /\ wire # << >> /\ \A i \in 1..Len(wire) : wire[i].id = 2
  /\ errors = 0

\* -------------------------------------------------------------- noise gate
\* The threshold that applied to captured frame i.
ThresholdOf(i) ==
  IF captured[i].playing THEN HighThreshold ELSE LowThreshold

\* C28 (noise gate): every captured frame is gated against the higher
\* threshold when a source is live at that moment and against the lower one
\* otherwise; a frame below its threshold is sent zeroed and a frame at or
\* above it unmodified; the volume is reported for every frame.
C28_NoiseGate ==
  /\ [][nFrames' # nFrames =>
          /\ Len(captured') = nFrames' /\ nFrames' = nFrames + 1
          /\ captured'[nFrames'].playing = (audioSources # {})
          /\ captured'[nFrames'].volume = captured'[nFrames'].rms * 100]_vars
  /\ [](\A i \in 1..Len(wire) :
          wire[i].zeroed = (captured[wire[i].id].rms < ThresholdOf(wire[i].id)))

\* Two frames of the same level between the thresholds: one captured in
\* silence and sent as it is, one captured under playback and sent zeroed.
C28_Witness ==
  \E i, j \in 1..Len(wire) :
    /\ captured[wire[i].id].rms = captured[wire[j].id].rms
    /\ captured[wire[i].id].rms >= LowThreshold
    /\ ~captured[wire[i].id].playing /\ ~wire[i].zeroed
    /\ captured[wire[j].id].playing /\ wire[j].zeroed

\* ------------------------------------------------------------ enqueue rule
\* C29 (enqueue rule): every chunk that is scheduled starts at the larger of
\* the cursor before the call and the clock, which is never before the
\* clock, has the duration of its payload, and leaves the cursor at its end
\* unless playback is stopped in the same step.
C29_EnqueueRule ==
  [][Len(scheduled') > Len(scheduled) =>
       LET e == scheduled'[Len(scheduled')]
       IN  /\ Len(scheduled') = Len(scheduled) + 1
           /\ e.start = IF nextStartTime > currentTime
                          THEN nextStartTime ELSE currentTime
           /\ e.start >= currentTime'
           /\ e.dur = chunks'[e.chunk].dur /\ e.dur > 0
           /\ Stops' = Stops => nextStartTime' = e.start + e.dur]_vars

\* One chunk was scheduled at the clock, which had advanced, and the next
\* one behind it at the cursor, ahead of the clock.
C29_Witness ==
  \E i \in 1..Len(scheduled) :
    /\ i > 1
    /\ scheduled[i - 1].at > 0
    /\ scheduled[i - 1].start = scheduled[i - 1].at
    /\ scheduled[i].start > scheduled[i].at
    /\ nextStartTime = EndOfEntry(i)

\* ------------------------------------------------------------- debounce
\* What the debounce timer finds when it fires.
IdleAtFiring == audioSources = {} /\ ~isInterrupted

\* C30, as claimed: the debounce timer reports Listening only when it finds
\* the live set empty and no interruption pending; and when a chunk was
\* enqueued while it was pending it reports nothing and the state stays
\* Speaking.
C30_DebounceSkipsAfterEnqueue ==
  /\ [][DebounceTimer =>
          ((debounce' = "reported" \/ eyeState' # eyeState) =>
             IdleAtFiring /\ eyeState' = "LISTENING")]_vars
  /\ [][(DebounceTimer /\ debounce = "enqueued") =>
          /\ debounce' = "skipped"
          /\ eyeState' = eyeState /\ eyeState = "SPEAKING"]_vars

\* C30, amended: the debounce timer reports Listening exactly when it finds
\* the live set empty and no interruption pending; a chunk enqueued while it
\* was pending makes it report nothing, the reported state staying what it
\* was, when that chunk is still live as the timer fires.
C30_DebounceSkipsWhileLive ==
  /\ [][DebounceTimer =>
          IF IdleAtFiring
            THEN debounce' = "reported" /\ eyeState' = "LISTENING"
            ELSE debounce' = "skipped" /\ eyeState' = eyeState]_vars
  /\ [][(DebounceTimer /\ debounce = "enqueued" /\ audioSources # {}) =>
          /\ debounce' = "skipped" /\ eyeState' = eyeState
          /\ audioSources' = audioSources /\ audioSources' # {}]_vars

\* The timer fired while a chunk enqueued during the debounce was live and
\* reported nothing.
C30_Witness ==
  /\ debounce = "skipped" /\ "debounce" \notin timers
  /\ audioSources # {} /\ ~isInterrupted
  /\ eyeState = "SPEAKING"

\* ------------------------------------------------------- reported state
\* C31, as claimed: whenever a source is live, the state last reported to
\* the host is Speaking.
C31_SpeakingWhilePlaying ==
  audioSources # {} => eyeState = "SPEAKING"

\* ------------------------------------------------------ interruption flag
\* C32 (interruption flag): the flag is raised only by a message with the
\* interrupted signal and lowered only by a message with turnComplete; an
\* audio chunk that arrives while it is raised is not recorded, not
\* scheduled, not added to the live set, does not move the cursor and does
\* not report Speaking; no chunk is ever scheduled while the flag is raised.
C32_InterruptionFlag ==
  /\ [][isInterrupted' # isInterrupted =>
          \E m \in InterruptMsgs :
            /\ Deliver(m)
            /\ isInterrupted' => m.interrupted
            /\ ~isInterrupted' => m.turnComplete]_vars
  /\ [][\A m \in InterruptMsgs :
          (isInterrupted /\ nMsgs' # nMsgs /\ m.audio # 0 /\ Deliver(m)) =>
            /\ chunks' = chunks /\ scheduled' = scheduled
            /\ audioSources' \subseteq audioSources
            /\ Stops' = Stops => nextStartTime' = nextStartTime
            /\ eyeState' # "SPEAKING"]_vars
  /\ [][Len(scheduled') > Len(scheduled) => ~isInterrupted]_vars
  /\ [](isInterrupted => audioSources = {})

\* After an interruption and the turnComplete that followed it, a chunk of
\* the next turn is playing.
C32_Witness ==
  /\ interruptedTurns # {} /\ ~isInterrupted
  /\ \E id \in audioSources :
       \A u \in interruptedTurns : chunks[id].turn > u
  /\ eyeState = "SPEAKING"

\* ------------------------------------------------------ error notification
\* The last three callbacks the service made.
LastCalls(r) ==
  IF Len(r) < 3 THEN r ELSE SubSeq(r, Len(r) - 2, Len(r))

\* C33 (error notification): every step that reports an error reports one
\* error, after the state Idle and before the disconnect notification, as
\* the last three callbacks of the step.
C33_ErrorThenDisconnect ==
  [][errors' # errors =>
       /\ errors' = errors + 1
       /\ disconnects' = disconnects + 1
       /\ LastCalls(recent') = <<"IDLE", "error", "disconnect">>]_vars

\* The microphone was refused and the transport reported an error: both
\* were notified.
C33_Witness ==
  /\ pcMic = "failed" /\ transport = "errored"
  /\ errors = 2 /\ disconnects = 2
  /\ LastCalls(recent) = <<"IDLE", "error", "disconnect">>

\* C34, as claimed: the host is notified of the disconnect at most once in
\* a session.
C34_DisconnectNotifiedOnce ==
  disconnects <= 1

\* ------------------------------------------------- interruption, user side
\* The transcript events a step adds.
NewEvents == (Len(transcripts) + 1)..Len(transcripts')
Spoken(text) == \E i \in 1..Len(text) : text[i] > 0

\* C35 (user side of an interruption): a message with the interrupted
\* signal leaves the input accumulator as it was, extended by the input
\* text the same message carries, and emits no user event unless it carries
\* input text or turnComplete; and every turnComplete, after an
\* interruption or not, emits a final user event with the text accumulated
\* so far when somebody spoke.
C35_InterruptionKeepsUserText ==
  /\ [][\A m \in TranscriptMsgs :
          (m.interrupted /\ ~m.turnComplete /\ nMsgs' # nMsgs /\ Deliver(m)) =>
            /\ IsPrefix(currentInputTranscription, currentInputTranscription')
            /\ m.inputText = "none" =>
                 /\ currentInputTranscription' = currentInputTranscription
                 /\ \A i \in NewEvents : transcripts'[i].role # "user"]_vars
  /\ [][\A m \in TranscriptMsgs :
          (m.turnComplete /\ nMsgs' # nMsgs /\ Deliver(m)
             /\ Spoken(currentInputTranscription)) =>
            \E i \in NewEvents :
              /\ transcripts'[i].role = "user" /\ transcripts'[i].final
              /\ IsPrefix(currentInputTranscription, transcripts'[i].text)]_vars

\* The user spoke and the model answered in one message; the next message
\* interrupted the model and closed the turn: the model's text is dropped
\* and the user's text is final.
C35_Witness ==
  /\ nMsgs = 2 /\ discarded = {2}
  /\ \E i \in 1..Len(transcripts) :
       /\ transcripts[i].role = "user" /\ transcripts[i].final
       /\ transcripts[i].text = <<1>>
       /\ transcripts[i].turn \in interruptedTurns

\* ------------------------------------------------------------ voice sample
\* handleOpen has run: it has started the microphone.
Opened == pcMic # "new"

\* C36, as claimed: once the connection has opened, a configured voice
\* sample has been sent once, before any microphone frame, with its note
\* scheduled; and without a configured sample nothing of the kind is sent.
C36_VoiceSampleAtOpen ==
  /\ (userVoiceSample /\ Opened) =>
       voiceSent = 1 /\ (framesSent > 0 => voiceSent = 1)
  /\ voiceSent <= 1
  /\ ~userVoiceSample => voiceSent = 0 /\ "voiceNote" \notin timers

\* C37: the host appends a transcript to the chat history only when it is
\* final, its trimmed text is not empty and it differs from the last entry
\* in role or text; a non-final transcript leaves the history alone; and the
\* history never holds the same role and text twice in a row.
C37_HistoryAppends ==
  /\ [](\A i \in 1..(Len(history) - 1) : history[i] # history[i + 1])
  /\ [][\A role \in Roles, text \in Texts, final \in BOOLEAN :
          OnTranscript(role, text, final) =>
            /\ ~final => history' = history
            /\ history' # history =>
                 /\ final /\ ~IsBlank(text)
                 /\ history' = Append(history, [role |-> role, text |-> text])
                 /\ \/ history = << >>
                    \/ history[Len(history)] # [role |-> role, text |-> text]
            /\ (/\ history # << >>
                /\ history[Len(history)] = [role |-> role, text |-> text])
                 => history' = history]_vars

\* The same text was kept twice in a row, said by the user and by the model.
C37_Witness ==
  /\ Len(history) = 2
  /\ history[1].text = history[2].text
  /\ history[1].role # history[2].role

\* C38: float32ToInt16 gives every sample, inside or outside [-1, 1], a
\* value of -32768..32767: -32768 for -1 and below, 32767 for +1 and above,
\* 0 for 0.  The buffer of n encoded samples has 2n bytes, and decoding it
\* gives n samples; the 4096-sample frame at 48000 Hz resampled to 16000 Hz
\* is 1365 samples and 2730 bytes.
C38_EncodingRange ==
  /\ int16Array # << >> =>
       LET array == int16Array[1]
           n == resampled[1].length
       IN  /\ Len(array) = n
           /\ Len(ArrayBuffer(array)) = 2 * n
           /\ \A i \in 1..n :
                /\ array[i] \in (0 - 32768)..32767
                /\ sample <= 0 - Grid => array[i] = 0 - 32768
                /\ sample >= Grid => array[i] = 32767
                /\ sample = 0 => array[i] = 0
           /\ (/\ buffer.length = 4096 /\ buffer.inputSampleRate = 48000
               /\ buffer.outputSampleRate = 16000)
                => /\ n = 1365
                   /\ Len(ArrayBuffer(array)) = 2730
  /\ float32 # << >> =>
       /\ ~float32[1].threw
       /\ Len(float32[1].float32) = Len(int16Array[1])

\* The 4096-sample frame at 48000 Hz, every sample above +1, was resampled,
\* encoded and decoded.
C38_Witness ==
  /\ buffer.length = 4096 /\ buffer.inputSampleRate = 48000
  /\ sample > Grid
  /\ float32 # << >>
  /\ Len(float32[1].float32) = 1365
  /\ \A i \in 1..1365 : int16Array[1][i] = 32767

\* C39, as claimed: for input rate above output rate, element i of what
\* downsampleBuffer returns is input element floor(i * r_in / r_out), and
\* that index is inside the input buffer.
C39_DecimationIndices ==
  (resampled # << >> /\ buffer.inputSampleRate > buffer.outputSampleRate) =>
    \A i \in 0..(resampled[1].length - 1) :
      /\ resampled[1].offsets[i + 1] =
           (i * buffer.inputSampleRate) \div buffer.outputSampleRate
      /\ resampled[1].offsets[i + 1] < buffer.length

\* C40: decoding the text that arrayBufferToBase64 made of a byte sequence
\* with base64ToArrayBuffer gives the same bytes back: as many, and each
\* byte the same, in order.
C40_Base64RoundTrip ==
  arrayBuffer # << >> =>
    /\ ~arrayBuffer[1].threw
    /\ Len(arrayBuffer[1].bytes) = Len(bytes)
    /\ \A i \in 1..Len(bytes) : arrayBuffer[1].bytes[i] = bytes[i]

\* Two bytes went through the text and back: the text is four characters,
\* the last of them padding, and holds a character of the end of the
\* alphabet.
C40_Witness ==
  /\ arrayBuffer # << >>
  /\ bytes = <<255, 255>>
  /\ base64[1].data = <<"/", "/", "8", "=">>
  /\ arrayBuffer[1].bytes = bytes

====
